---- MODULE Spec2Model ----
(***************************************************************************)
(* Model of the financial-portfolio tracker: the zustand portfolio store   *)
(* (stores/portfolioStore.ts), the calculation engine                      *)
(* (services/calculationService.ts) and the FIFO tax matcher               *)
(* (pages/TaxReport.tsx).                                                  *)
(*                                                                         *)
(* Numbers.  JavaScript numbers are modelled as exact rationals: a         *)
(* rational is a record [n, d] in lowest terms with d > 0.  IEEE-754       *)
(* rounding is outside the model.  Quantities the code only reads (share   *)
(* counts, prices, snapshot values) are integers.                          *)
(*                                                                         *)
(* Time.  A date string is modelled by its timestamp (Date.getTime()),     *)
(* counted in ticks; one day is TicksPerDay ticks.                         *)
(***************************************************************************)
EXTENDS Integers, Sequences, FiniteSets

VARIABLES
    snapshots,      \* store: state.snapshots
    twr,            \* usePortfolioSummary: memoized calculateTWR(snapshots)
    holdings,       \* store: state.holdings
    groups,         \* store: state.groups
    exchangeRates,  \* store: state.exchangeRates
    nextId,         \* ids handed out by generateId so far
    selectedYear,   \* TaxReport: useState(selectedYear)
    taxableEvents,  \* TaxReport: memoized taxableEvents
    calculated,     \* Holdings/Calculator page: holdings.map(calculateHolding)
    allocation,     \* Calculator page: calculateAllocation(holdingsWithCalc, groups)
    bonds,          \* store: state.bonds
    bondsWithCalc,  \* Bonds page: bonds.map(calculateBond)
    concentration,  \* Analysis page: calculateConcentrationRisk(holdingsWithCalc)
    riskMetrics,    \* Analysis page: calculateRiskMetrics(snapshots)
    xirr,           \* calculateXIRR: the call in progress (arguments, locals, result)
    lastAction,     \* the store action that produced the state, with its arguments
    cashAccounts,   \* store: state.cashAccounts
    isRefreshing,   \* usePriceRefresh: useState(isRefreshing)
    lastRefresh,    \* usePriceRefresh: useState(lastRefresh)
    invocations,    \* usePriceRefresh: the refreshPrices calls made so far
    cache,          \* PriceService: this.cache
    now,            \* Date.now(), in milliseconds
    calls           \* PriceService: the getPrice calls made so far

vars == <<snapshots, twr, holdings, groups, exchangeRates, nextId, selectedYear,
          taxableEvents, calculated, allocation, bonds, bondsWithCalc,
          concentration, riskMetrics, xirr, lastAction, cashAccounts, isRefreshing,
          lastRefresh, invocations, cache, now, calls>>

varsCash == <<cashAccounts>>
varsRefresh == <<isRefreshing, lastRefresh, invocations>>
varsPrice == <<cache, now, calls>>
varsServices == <<varsCash, varsRefresh, varsPrice>>

varsAnalysis ==
    <<bonds, bondsWithCalc, concentration, riskMetrics, xirr, lastAction, varsServices>>

-----------------------------------------------------------------------------
(* Bounds of the model *)

MaxSnapshots == 3
MaxTransactions == 3
MaxHoldings == 2
MaxGroups == 2
TicksPerDay == 2

(* Program constants *)

DaysPerYear == 365
ShortTermDays == 365
RebalanceThreshold == 5
CalendarYearDays == 365

NoDate == -1
NoGroup == "null"

\* types/portfolio.ts: USD 3.75, EUR 4.05
DEFAULT_EXCHANGE_RATES == [USD |-> [n |-> 15, d |-> 4], EUR |-> [n |-> 81, d |-> 20]]

\* types/portfolio.ts createEmptyPortfolio: the default groups (name and colour
\* are display fields and are left out)
DEFAULT_GROUPS ==
    <<[id |-> "stocks-us", targetPercent |-> 40],
      [id |-> "stocks-il", targetPercent |-> 20],
      [id |-> "bonds", targetPercent |-> 30],
      [id |-> "other", targetPercent |-> 10]>>

\* results are records, so that an absent one is a record too
Null == [kind |-> "null"]
NotComputed == [kind |-> "not-computed"]

\* types/portfolio.ts createEmptyPortfolio: three empty cash accounts
EmptyCashAccounts ==
    [c \in {"ILS", "USD", "EUR"} |->
        [currency |-> c, balance |-> [n |-> 0, d |-> 1], transactions |-> <<>>]]

\* no refresh running and none made, an empty price cache, no getPrice call made
InitServices ==
    /\ cashAccounts = EmptyCashAccounts
    /\ isRefreshing = FALSE
    /\ lastRefresh = [kind |-> "null"]
    /\ invocations = <<>>
    /\ cache = <<>>
    /\ now = 0
    /\ calls = <<>>

\* no bonds, nothing computed on the analysis pages, no calculateXIRR call made
InitAnalysis ==
    /\ InitServices
    /\ bonds = <<>>
    /\ bondsWithCalc = NotComputed
    /\ concentration = NotComputed
    /\ riskMetrics = NotComputed
    /\ xirr = NotComputed
    /\ lastAction = [op |-> "init"]

-----------------------------------------------------------------------------
(* Exact rational arithmetic standing for JavaScript number arithmetic *)

Abs(x) == IF x < 0 THEN -x ELSE x

RECURSIVE GCD(_, _)
GCD(a, b) == IF b = 0 THEN a ELSE GCD(b, a % b)

Rat(num, den) ==
    LET g == GCD(Abs(num), Abs(den))
        s == IF den < 0 THEN -1 ELSE 1
    IN  [n |-> (s * num) \div g, d |-> (s * den) \div g]

R(i) == [n |-> i, d |-> 1]
Zero == R(0)
One == R(1)

\* sums are formed over the least common denominator
LCD(a, b) == (a.d \div GCD(a.d, b.d)) * b.d

RAdd(a, b) ==
    Rat(a.n * (LCD(a, b) \div a.d) + b.n * (LCD(a, b) \div b.d), LCD(a, b))
RSub(a, b) ==
    Rat(a.n * (LCD(a, b) \div a.d) - b.n * (LCD(a, b) \div b.d), LCD(a, b))
RMul(a, b) == Rat(a.n * b.n, a.d * b.d)
RDiv(a, b) == Rat(a.n * b.d, a.d * b.n)
RLt(a, b) == a.n * b.d < b.n * a.d
RLe(a, b) == a.n * b.d <= b.n * a.d
RAbs(a) == [n |-> Abs(a.n), d |-> a.d]
RMax(a, b) == IF RLt(a, b) THEN b ELSE a
RFloor(a) == a.n \div a.d

Day(k) == k * TicksPerDay

-----------------------------------------------------------------------------
(* Array.prototype.sort with a comparator: a stable insertion sort *)

RECURSIVE InsertByDate(_, _)
InsertByDate(sorted, x) ==
    IF sorted = <<>> THEN <<x>>
    ELSE IF sorted[Len(sorted)].date - x.date > 0
         THEN Append(InsertByDate(SubSeq(sorted, 1, Len(sorted) - 1), x),
                     sorted[Len(sorted)])
         ELSE Append(sorted, x)

\* mutant: the snapshots taken in the order given
SortByDateSkipped(seq) == seq

RECURSIVE SortByDate(_)
SortByDate(seq) ==
    IF seq = <<>> THEN <<>>
    ELSE InsertByDate(SortByDate(SubSeq(seq, 1, Len(seq) - 1)), seq[Len(seq)])

\* mutant: array.sort(compare), which rearranges the array passed in
ArrayAfterSortInPlace(array, sorted) == sorted

\* [...array].sort(compare): the array the caller passed in, after the call;
\* sort rearranges the copy
ArrayAfterSort(array, sorted) == array

-----------------------------------------------------------------------------
(* calculationService.ts: calculateTWR *)

\* mutant: the guard written with <= 2
InsufficientSnapshotsOffByOne(snaps) == Len(snaps) <= 2

InsufficientSnapshots(snaps) == Len(snaps) < 2

\* mutant: the previous snapshot's cash flow left out of the start value
StartValueWithoutFlow(prev) == prev.valueBeforeFlow

StartValue(prev) == prev.valueBeforeFlow + prev.cashFlow

EndValue(curr) == curr.valueBeforeFlow

\* mutant: cumulativeReturn = periodReturn instead of *=
ChainPeriodOverwriting(cumulativeReturn, prev, curr) ==
    IF StartValue(prev) > 0
    THEN Rat(EndValue(curr), StartValue(prev))
    ELSE cumulativeReturn

\* one pass of the loop body: the new cumulativeReturn
ChainPeriod(cumulativeReturn, prev, curr) ==
    IF StartValue(prev) > 0
    THEN RMul(cumulativeReturn, Rat(EndValue(curr), StartValue(prev)))
    ELSE cumulativeReturn

\* for (let i = 1; i < sorted.length; i++): i is the 1-based index of curr
RECURSIVE ChainFrom(_, _, _)
ChainFrom(sorted, i, cumulativeReturn) ==
    IF i > Len(sorted) THEN cumulativeReturn
    ELSE ChainFrom(sorted, i + 1,
                   ChainPeriod(cumulativeReturn, sorted[i - 1], sorted[i]))

CumulativeReturn(sorted) == ChainFrom(sorted, 2, One)

TotalReturn(cumulativeReturn) == RMul(RSub(cumulativeReturn, One), R(100))

PeriodDays(sorted) ==
    RMax(One, Rat(sorted[Len(sorted)].date - sorted[1].date, TicksPerDay))

\* Math.pow(cumulativeReturn, 1 / years) is irrational in general: it is kept
\* as the term [base, years] unless years = 1, where pow(x, 1) = x.
AnnualizedReturn(cumulativeReturn, periodDays) ==
    LET years == RDiv(periodDays, R(DaysPerYear))
    IN  IF RLt(Zero, years)
        THEN IF years = One
             THEN RMul(RSub(cumulativeReturn, One), R(100))
             ELSE [base |-> cumulativeReturn, years |-> years]
        ELSE TotalReturn(cumulativeReturn)

calculateTWR(snaps) ==
    IF InsufficientSnapshots(snaps) THEN Null
    ELSE LET sorted == SortByDate(snaps)
             cumulativeReturn == CumulativeReturn(sorted)
             totalReturn == TotalReturn(cumulativeReturn)
             periodDays == PeriodDays(sorted)
         IN  [totalReturn |-> totalReturn,
              annualizedReturn |-> AnnualizedReturn(cumulativeReturn, periodDays),
              baseReturn |-> totalReturn,
              liveReturn |-> Zero,
              periodDays |-> periodDays]

-----------------------------------------------------------------------------
(* Snapshot part of the store and the TWR view *)

SnapshotDates == {Day(0), Day(100) + 1, Day(365)}
SnapshotValues == {0, 1000, 1100}
SnapshotFlows == {0, -1000}

SnapshotInputs ==
    [date : SnapshotDates, valueBeforeFlow : SnapshotValues, cashFlow : SnapshotFlows]

\* portfolioStore.addSnapshot; the memoized summary is recomputed on change
addSnapshot(snapshotData) ==
    /\ Len(snapshots) < MaxSnapshots
    /\ snapshots' = Append(snapshots, snapshotData)
    /\ twr' = NotComputed

\* usePortfolioSummary -> calculatePortfolioSummary -> calculateTWR(snapshots)
SummaryTWR ==
    /\ twr = NotComputed
    /\ twr' = calculateTWR(snapshots)
    /\ snapshots' = IF InsufficientSnapshots(snapshots) THEN snapshots
                    ELSE ArrayAfterSort(snapshots, SortByDate(snapshots))

varsTWR == <<snapshots, twr>>
varsHoldings == <<holdings, groups, exchangeRates, nextId, selectedYear,
                  taxableEvents, calculated, allocation>>

InitSnapshots == snapshots = <<>> /\ twr = NotComputed /\ InitAnalysis

InitHoldings ==
    /\ holdings = <<>>
    /\ groups = DEFAULT_GROUPS
    /\ exchangeRates = DEFAULT_EXCHANGE_RATES
    /\ nextId = 1
    /\ selectedYear = 0
    /\ taxableEvents = NotComputed
    /\ calculated = NotComputed
    /\ allocation = NotComputed

InitTWR == InitSnapshots /\ InitHoldings

NextTWR ==
    \/ /\ \E s \in SnapshotInputs : addSnapshot(s)
       /\ UNCHANGED <<varsHoldings, varsAnalysis>>
    \/ /\ SummaryTWR
       /\ UNCHANGED <<varsHoldings, varsAnalysis>>

SpecTWR == InitTWR /\ [][NextTWR]_vars

-----------------------------------------------------------------------------
(* Holdings part of the store *)

\* generateId: a fresh id
generateId == nextId

\* portfolioStore.addHolding
addHolding(holdingData) ==
    /\ holdings' = Append(holdings,
           [id |-> generateId,
            shares |-> holdingData.shares,
            currency |-> holdingData.currency,
            groupId |-> holdingData.groupId,
            currentPrice |-> holdingData.currentPrice,
            transactions |-> <<>>])
    /\ nextId' = nextId + 1

\* mutant: the newest transaction put first
WithTransactionFirst(transactions, newTransaction) ==
    <<newTransaction>> \o transactions

\* [...h.transactions, newTransaction]
WithTransaction(transactions, newTransaction) ==
    Append(transactions, newTransaction)

SharesAfter(h, transactionData) ==
    IF transactionData.type = "buy" THEN h.shares + transactionData.shares
    ELSE IF transactionData.type = "sell" THEN h.shares - transactionData.shares
    ELSE h.shares

\* portfolioStore.addTransaction
addTransaction(holdingId, transactionData) ==
    LET newTransaction ==
            [id |-> generateId,
             type |-> transactionData.type,
             date |-> transactionData.date,
             shares |-> transactionData.shares,
             pricePerShare |-> transactionData.pricePerShare,
             fees |-> transactionData.fees]
    IN  /\ holdings' =
               [i \in 1..Len(holdings) |->
                   IF holdings[i].id = holdingId
                   THEN [holdings[i] EXCEPT
                            !.transactions = WithTransaction(@, newTransaction),
                            !.shares = SharesAfter(holdings[i], transactionData)]
                   ELSE holdings[i]]
        /\ nextId' = nextId + 1

\* portfolioStore.updateHoldingPrice
updateHoldingPrice(id, price) ==
    holdings' =
        [i \in 1..Len(holdings) |->
            IF holdings[i].id = id
            THEN [holdings[i] EXCEPT !.currentPrice = price]
            ELSE holdings[i]]

\* { ...h, ...updates }: the fields updates names replace those of h
Spread(h, updates) ==
    [f \in DOMAIN h |-> IF f \in DOMAIN updates THEN updates[f] ELSE h[f]]

\* portfolioStore.updateHolding
updateHolding(id, updates) ==
    holdings' =
        [i \in 1..Len(holdings) |->
            IF holdings[i].id = id THEN Spread(holdings[i], updates) ELSE holdings[i]]

\* mutant: the holdings of the deleted group keep their groupId
UngroupKeeping(h, id) == h

\* h.groupId === id ? { ...h, groupId: null } : h
Ungroup(h, id) == IF h.groupId = id THEN [h EXCEPT !.groupId = NoGroup] ELSE h

\* portfolioStore.deleteGroup
deleteGroup(id) ==
    /\ groups' = SelectSeq(groups, LAMBDA g : g.id # id)
    /\ holdings' = [i \in 1..Len(holdings) |-> Ungroup(holdings[i], id)]

\* portfolioStore.importPortfolio: migrateOldData keeps the ids the data gives
importPortfolio(data) ==
    /\ holdings' = data.holdings
    /\ groups' = data.groups

\* portfolioStore.updateExchangeRates: { ...state.exchangeRates, ...rates }
updateExchangeRates(rates) ==
    exchangeRates' =
        [c \in DOMAIN exchangeRates |->
            IF c \in DOMAIN rates THEN rates[c] ELSE exchangeRates[c]]

TransactionCount(hs) ==
    LET RECURSIVE Count(_)
        Count(i) == IF i = 0 THEN 0 ELSE Len(hs[i].transactions) + Count(i - 1)
    IN  Count(Len(hs))

-----------------------------------------------------------------------------
(* calculationService.ts: convertToILS, calculateHolding *)

Min(a, b) == IF a < b THEN a ELSE b

SeqToSet(seq) == {seq[i] : i \in 1..Len(seq)}

\* transactions as they were entered (Omit<Transaction, 'id'>)
WithoutIds(transactions) ==
    [i \in 1..Len(transactions) |->
        [type |-> transactions[i].type, date |-> transactions[i].date,
         shares |-> transactions[i].shares,
         pricePerShare |-> transactions[i].pricePerShare,
         fees |-> transactions[i].fees]]

OfType(transactions, type) ==
    SelectSeq(transactions, LAMBDA t : t.type = type)

\* mutant: a foreign amount divided by its rate
convertToILSDividing(amount, currency, rates) ==
    IF currency = "ILS" THEN amount ELSE RDiv(amount, rates[currency])

convertToILS(amount, currency, rates) ==
    IF currency = "ILS" THEN amount ELSE RMul(amount, rates[currency])

\* mutant: the fees of a buy left out of its cost
BuyCostWithoutFees(t) == t.shares * t.pricePerShare

BuyCost(t) == t.shares * t.pricePerShare + t.fees

\* mutant: every transaction but dividends counted as cost
CostBasisTransactionsNotOnlyBuys(transactions) ==
    SelectSeq(transactions, LAMBDA t : t.type # "dividend")

CostBasisTransactions(transactions) == OfType(transactions, "buy")

RECURSIVE SumCost(_)
SumCost(transactions) ==
    IF transactions = <<>> THEN 0
    ELSE SumCost(SubSeq(transactions, 1, Len(transactions) - 1))
         + BuyCost(transactions[Len(transactions)])

\* mutant: only a cost basis of 0 guarded
GainLossPercentGuardingZero(gainLoss, costBasis) ==
    IF costBasis # 0 THEN RMul(Rat(gainLoss, costBasis), R(100)) ELSE Zero

\* costBasis > 0 ? (gainLoss / costBasis) * 100 : 0
GainLossPercent(gainLoss, costBasis) ==
    IF costBasis > 0 THEN RMul(Rat(gainLoss, costBasis), R(100)) ELSE Zero

calculateHolding(holding, rates) ==
    LET costBasis == SumCost(CostBasisTransactions(holding.transactions))
        marketValue == holding.shares * holding.currentPrice
        marketValueILS == convertToILS(R(marketValue), holding.currency, rates)
        gainLoss == marketValue - costBasis
        gainLossPercent == GainLossPercent(gainLoss, costBasis)
    IN  [id |-> holding.id,
         shares |-> holding.shares,
         currency |-> holding.currency,
         groupId |-> holding.groupId,
         currentPrice |-> holding.currentPrice,
         transactions |-> holding.transactions,
         costBasis |-> costBasis,
         marketValue |-> marketValue,
         marketValueILS |-> marketValueILS,
         gainLoss |-> gainLoss,
         gainLossPercent |-> gainLossPercent]

\* holdings.map((h) => calculateHolding(h, rates))
HoldingsWithCalc(hs, rates) ==
    [i \in 1..Len(hs) |-> calculateHolding(hs[i], rates)]

-----------------------------------------------------------------------------
(* calculationService.ts: calculateBond; the bonds of the store *)

calculateBond(bond) ==
    LET marketValue == bond.units * bond.currentPrice
        gainLoss == marketValue - bond.costBasis
        gainLossPercent == GainLossPercent(gainLoss, bond.costBasis)
    IN  [id |-> bond.id,
         units |-> bond.units,
         costBasis |-> bond.costBasis,
         currentPrice |-> bond.currentPrice,
         marketValue |-> marketValue,
         gainLoss |-> gainLoss,
         gainLossPercent |-> gainLossPercent]

\* bonds.map(calculateBond)
BondsWithCalc(bs) == [i \in 1..Len(bs) |-> calculateBond(bs[i])]

\* portfolioStore.addBond
addBond(bondData) ==
    /\ bonds' = Append(bonds,
           [id |-> generateId,
            units |-> bondData.units,
            costBasis |-> bondData.costBasis,
            currentPrice |-> bondData.currentPrice])
    /\ nextId' = nextId + 1

-----------------------------------------------------------------------------
(* calculationService.ts: calculateAllocation *)

RECURSIVE SumMarketValueILS(_)
SumMarketValueILS(hs) ==
    IF hs = <<>> THEN Zero
    ELSE RAdd(SumMarketValueILS(SubSeq(hs, 1, Len(hs) - 1)),
              hs[Len(hs)].marketValueILS)

\* mutant: holdings without a group counted in every group
InGroupOrUnassigned(h, group) == h.groupId = group.id \/ h.groupId = NoGroup

InGroup(h, group) == h.groupId = group.id

\* mutant: the difference of an empty portfolio reported as 0
DegenerateItemNoDifference(g) ==
    [groupId |-> g.id,
     currentValue |-> Zero,
     currentPercent |-> Zero,
     targetPercent |-> g.targetPercent,
     difference |-> Zero,
     differenceValue |-> Zero]

DegenerateItem(g) ==
    [groupId |-> g.id,
     currentValue |-> Zero,
     currentPercent |-> Zero,
     targetPercent |-> g.targetPercent,
     difference |-> R(-g.targetPercent),
     differenceValue |-> Zero]

\* mutant: the difference taken as a fraction, not as a percentage
DifferenceValueUnscaled(difference, totalValue) == RMul(difference, totalValue)

\* (difference / 100) * totalValue
DifferenceValue(difference, totalValue) == RMul(RDiv(difference, R(100)), totalValue)

AllocationItem(hs, group, totalValue) ==
    LET groupHoldings == SelectSeq(hs, LAMBDA h : InGroup(h, group))
        currentValue == SumMarketValueILS(groupHoldings)
        currentPercent == RMul(RDiv(currentValue, totalValue), R(100))
        difference == RSub(currentPercent, R(group.targetPercent))
        differenceValue == DifferenceValue(difference, totalValue)
    IN  [groupId |-> group.id,
         currentValue |-> currentValue,
         currentPercent |-> currentPercent,
         targetPercent |-> group.targetPercent,
         difference |-> difference,
         differenceValue |-> differenceValue]

\* mutant: a deviation of exactly the threshold triggers
OffTargetInclusive(item) == RLe(R(RebalanceThreshold), RAbs(item.difference))

OffTarget(item) == RLt(R(RebalanceThreshold), RAbs(item.difference))

calculateAllocation(hs, gs) ==
    LET totalValue == SumMarketValueILS(hs)
    IN  IF totalValue = Zero
        THEN [items |-> [i \in 1..Len(gs) |-> DegenerateItem(gs[i])],
              totalValue |-> Zero,
              rebalanceNeeded |-> FALSE]
        ELSE LET items == [i \in 1..Len(gs) |-> AllocationItem(hs, gs[i], totalValue)]
             IN  [items |-> items,
                  totalValue |-> totalValue,
                  rebalanceNeeded |-> \E i \in 1..Len(items) : OffTarget(items[i])]

-----------------------------------------------------------------------------
(* The calculator page over the store's holdings and groups *)

AllocationHoldingInputs ==
    {[shares |-> n, currentPrice |-> 10, currency |-> "ILS", groupId |-> g] :
        n \in {-10, 0, 10}, g \in {NoGroup, "stocks-us", "bonds"}}
    \cup
    {[shares |-> 10, currentPrice |-> 10, currency |-> "USD", groupId |-> "stocks-us"]}

ImportedGroupInputs ==
    [id : {"stocks-us", "bonds"}, targetPercent : {40, 45}]

ImportedGroupLists ==
    UNION {[1..n -> ImportedGroupInputs] : n \in 0..MaxGroups}

AllocAddHolding ==
    /\ Len(holdings) < MaxHoldings
    /\ \E data \in AllocationHoldingInputs : addHolding(data)
    /\ calculated' = NotComputed
    /\ allocation' = NotComputed
    /\ UNCHANGED <<groups, exchangeRates, selectedYear, taxableEvents>>

\* taken on a portfolio without positions, which keeps the ids handed out bounded
AllocImportPortfolio ==
    /\ holdings = <<>>
    /\ \E gs \in ImportedGroupLists :
           importPortfolio([holdings |-> <<>>, groups |-> gs])
    /\ calculated' = NotComputed
    /\ allocation' = NotComputed
    /\ UNCHANGED <<exchangeRates, nextId, selectedYear, taxableEvents>>

\* Calculator.tsx: holdingsWithCalc, then calculateAllocation
CalculateAllocation ==
    /\ allocation = NotComputed
    /\ calculated' = [holdings |-> HoldingsWithCalc(holdings, exchangeRates)]
    /\ allocation' =
           calculateAllocation(HoldingsWithCalc(holdings, exchangeRates), groups)
    /\ UNCHANGED <<holdings, groups, exchangeRates, nextId, selectedYear,
                   taxableEvents>>

InitAlloc == InitSnapshots /\ InitHoldings

NextAlloc ==
    \/ AllocAddHolding /\ UNCHANGED <<varsTWR, varsAnalysis>>
    \/ AllocImportPortfolio /\ UNCHANGED <<varsTWR, varsAnalysis>>
    \/ CalculateAllocation /\ UNCHANGED <<varsTWR, varsAnalysis>>

SpecAlloc == InitAlloc /\ [][NextAlloc]_vars

-----------------------------------------------------------------------------
(* The holdings page over one position *)

HoldingTransactionInputs ==
    {[type |-> "buy", date |-> Day(1), shares |-> 10, pricePerShare |-> 100, fees |-> 0],
     [type |-> "buy", date |-> Day(1), shares |-> 5, pricePerShare |-> 150, fees |-> 7],
     [type |-> "sell", date |-> Day(1), shares |-> 5, pricePerShare |-> 150, fees |-> 7],
     [type |-> "dividend", date |-> Day(1), shares |-> 10, pricePerShare |-> 2, fees |-> 7],
     [type |-> "split", date |-> Day(1), shares |-> 2, pricePerShare |-> 0, fees |-> 0]}

HoldingPriceInputs == {100, 150}

HoldingSharesInputs == {0, 10}

\* Settings.tsx handleSaveRates: both rates as edited
ExchangeRateInputs ==
    [USD : {[n |-> 15, d |-> 4], [n |-> 4, d |-> 1]},
     EUR : {[n |-> 81, d |-> 20], [n |-> 1, d |-> 2]}]

HoldingUpdateExchangeRates ==
    /\ \E rates \in ExchangeRateInputs :
           /\ rates # exchangeRates
           /\ updateExchangeRates(rates)
    /\ calculated' = NotComputed
    /\ UNCHANGED <<holdings, groups, nextId, selectedYear, taxableEvents, allocation>>

HoldingAddTransaction ==
    /\ TransactionCount(holdings) < MaxTransactions
    /\ \E h \in 1..Len(holdings), t \in HoldingTransactionInputs :
           addTransaction(holdings[h].id, t)
    /\ calculated' = NotComputed
    /\ UNCHANGED <<groups, exchangeRates, selectedYear, taxableEvents, allocation>>

HoldingUpdateHolding ==
    /\ \E h \in 1..Len(holdings), n \in HoldingSharesInputs :
           /\ n # holdings[h].shares
           /\ updateHolding(holdings[h].id, [shares |-> n])
    /\ calculated' = NotComputed
    /\ UNCHANGED <<groups, exchangeRates, nextId, selectedYear, taxableEvents,
                   allocation>>

HoldingUpdatePrice ==
    /\ \E h \in 1..Len(holdings), price \in HoldingPriceInputs :
           /\ price # holdings[h].currentPrice
           /\ updateHoldingPrice(holdings[h].id, price)
    /\ calculated' = NotComputed
    /\ UNCHANGED <<groups, exchangeRates, nextId, selectedYear, taxableEvents,
                   allocation>>

\* Holdings.tsx: holdings.map((h) => calculateHolding(h, rates))
CalculateHoldings ==
    /\ calculated = NotComputed
    /\ calculated' = [holdings |-> HoldingsWithCalc(holdings, exchangeRates)]
    /\ UNCHANGED <<holdings, groups, exchangeRates, nextId, selectedYear,
                   taxableEvents, allocation>>

InitHolding ==
    /\ InitSnapshots
    /\ \E c \in {"ILS", "USD", "EUR"} :
           holdings = <<[id |-> 1, shares |-> 0, currency |-> c, groupId |-> NoGroup,
                         currentPrice |-> 100, transactions |-> <<>>]>>
    /\ groups = DEFAULT_GROUPS
    /\ exchangeRates = DEFAULT_EXCHANGE_RATES
    /\ nextId = 2
    /\ selectedYear = 0
    /\ taxableEvents = NotComputed
    /\ calculated = NotComputed
    /\ allocation = NotComputed

NextHolding ==
    \/ HoldingAddTransaction /\ UNCHANGED <<varsTWR, varsAnalysis>>
    \/ HoldingUpdateHolding /\ UNCHANGED <<varsTWR, varsAnalysis>>
    \/ HoldingUpdatePrice /\ UNCHANGED <<varsTWR, varsAnalysis>>
    \/ HoldingUpdateExchangeRates /\ UNCHANGED <<varsTWR, varsAnalysis>>
    \/ CalculateHoldings /\ UNCHANGED <<varsTWR, varsAnalysis>>

SpecHolding == InitHolding /\ [][NextHolding]_vars

-----------------------------------------------------------------------------
(* The valuation of one position and of the bonds (calculatePortfolioSummary) *)

MaxBonds == 1

\* a purchase, a purchase entered with a negative share count, and a sale
ValuationTransactionInputs ==
    {[type |-> "buy", date |-> Day(1), shares |-> 10, pricePerShare |-> 100, fees |-> 0],
     [type |-> "buy", date |-> Day(1), shares |-> -10, pricePerShare |-> 100, fees |-> 0],
     [type |-> "sell", date |-> Day(1), shares |-> 5, pricePerShare |-> 150, fees |-> 7]}

\* BondModal submit data: plain number fields without a lower limit
BondInputs ==
    [units : {10}, costBasis : {-1000, 0, 1000}, currentPrice : {100, 150}]

ValuationAddTransaction ==
    /\ TransactionCount(holdings) < MaxTransactions
    /\ \E h \in 1..Len(holdings), t \in ValuationTransactionInputs :
           addTransaction(holdings[h].id, t)
    /\ calculated' = NotComputed
    /\ bondsWithCalc' = NotComputed
    /\ UNCHANGED <<groups, exchangeRates, selectedYear, taxableEvents, allocation,
                   bonds>>

ValuationAddBond ==
    /\ Len(bonds) < MaxBonds
    /\ \E bondData \in BondInputs : addBond(bondData)
    /\ calculated' = NotComputed
    /\ bondsWithCalc' = NotComputed
    /\ UNCHANGED <<holdings, groups, exchangeRates, selectedYear, taxableEvents,
                   allocation>>

\* calculatePortfolioSummary: holdings.map(calculateHolding), bonds.map(calculateBond)
CalculateValuations ==
    /\ calculated = NotComputed
    /\ calculated' = [holdings |-> HoldingsWithCalc(holdings, exchangeRates)]
    /\ bondsWithCalc' = [bonds |-> BondsWithCalc(bonds)]
    /\ UNCHANGED <<holdings, groups, exchangeRates, nextId, selectedYear,
                   taxableEvents, allocation, bonds>>

InitValuation == InitHolding

NextValuation ==
    \/ /\ ValuationAddTransaction
       /\ UNCHANGED <<varsTWR, concentration, riskMetrics, xirr, varsServices, lastAction>>
    \/ /\ ValuationAddBond
       /\ UNCHANGED <<varsTWR, concentration, riskMetrics, xirr, varsServices, lastAction>>
    \/ /\ CalculateValuations
       /\ UNCHANGED <<varsTWR, concentration, riskMetrics, xirr, varsServices, lastAction>>

SpecValuation == InitValuation /\ [][NextValuation]_vars

-----------------------------------------------------------------------------
(* pages/TaxReport.tsx: taxableEvents *)

\* new Date(date).getFullYear(), years of CalendarYearDays days from tick 0
YearOf(date) == (date \div TicksPerDay) \div CalendarYearDays

\* mutant helper: the first `sold` shares taken off the front of the buy list
RECURSIVE Deplete(_, _)
Deplete(buys, sold) ==
    IF buys = <<>> THEN <<>>
    ELSE LET taken == Min(sold, Head(buys).shares)
         IN  <<[Head(buys) EXCEPT !.shares = @ - taken]>>
             \o Deplete(Tail(buys), sold - taken)

RECURSIVE SumShares(_)
SumShares(transactions) ==
    IF transactions = <<>> THEN 0
    ELSE Head(transactions).shares + SumShares(Tail(transactions))

\* mutant: lots already used by the sales stored before this one are used up
MatchableBuysDepleted(transactions, sale) ==
    Deplete(OfType(transactions, "buy"),
            SumShares(SelectSeq(transactions,
                LAMBDA t : t.type = "sell" /\ t.id < sale.id)))

\* the buys a sale is matched against: all of the holding's buys
MatchableBuys(transactions, sale) == OfType(transactions, "buy")

\* mutant: the whole lot is matched
SharesToMatchWholeLot(remainingShares, buy) == buy.shares

SharesToMatch(remainingShares, buy) == Min(remainingShares, buy.shares)

\* for (const buy of buys): acc is [remainingShares, totalCostBasis, earliestBuyDate]
RECURSIVE MatchBuys(_, _, _)
MatchBuys(buys, saleDate, acc) ==
    IF buys = <<>> THEN acc
    ELSE IF acc.remainingShares <= 0 THEN acc
    ELSE LET buy == Head(buys)
             sharesToMatch == SharesToMatch(acc.remainingShares, buy)
         IN  IF buy.date > saleDate
             THEN MatchBuys(Tail(buys), saleDate, acc)
             ELSE MatchBuys(Tail(buys), saleDate,
                    [remainingShares |-> acc.remainingShares - sharesToMatch,
                     totalCostBasis |->
                         acc.totalCostBasis + sharesToMatch * buy.pricePerShare,
                     earliestBuyDate |->
                         IF acc.earliestBuyDate = NoDate \/ buy.date < acc.earliestBuyDate
                         THEN buy.date
                         ELSE acc.earliestBuyDate])

FifoMatch(buys, sale) ==
    MatchBuys(buys, sale.date,
              [remainingShares |-> sale.shares,
               totalCostBasis |-> 0,
               earliestBuyDate |-> NoDate])

\* mutant: without a matched buy the period is counted from the epoch
HoldingPeriodDaysFromEpoch(saleDate, earliestBuyDate) ==
    IF earliestBuyDate # NoDate
    THEN (saleDate - earliestBuyDate) \div TicksPerDay
    ELSE saleDate \div TicksPerDay

HoldingPeriodDays(saleDate, earliestBuyDate) ==
    IF earliestBuyDate # NoDate
    THEN (saleDate - earliestBuyDate) \div TicksPerDay
    ELSE 0

\* mutant: exactly one year counted as short-term
IsShortTermInclusive(holdingPeriodDays) == holdingPeriodDays <= ShortTermDays

IsShortTerm(holdingPeriodDays) == holdingPeriodDays < ShortTermDays

SaleEvent(holding, sale) ==
    LET matched == FifoMatch(MatchableBuys(holding.transactions, sale), sale)
        proceeds == sale.shares * sale.pricePerShare
        holdingPeriodDays == HoldingPeriodDays(sale.date, matched.earliestBuyDate)
    IN  [id |-> sale.id,
         date |-> sale.date,
         type |-> "sale",
         symbol |-> holding.id,
         proceeds |-> proceeds,
         costBasis |-> matched.totalCostBasis,
         gainLoss |-> proceeds - matched.totalCostBasis - sale.fees,
         currency |-> holding.currency,
         holdingPeriodDays |-> holdingPeriodDays,
         isShortTerm |-> IsShortTerm(holdingPeriodDays)]

DividendEvent(holding, div) ==
    [id |-> div.id,
     date |-> div.date,
     type |-> "dividend",
     symbol |-> holding.id,
     proceeds |-> div.shares * div.pricePerShare,
     costBasis |-> 0,
     gainLoss |-> div.shares * div.pricePerShare,
     currency |-> holding.currency,
     holdingPeriodDays |-> 0,
     isShortTerm |-> FALSE]

RECURSIVE SaleEvents(_, _)
SaleEvents(holding, sales) ==
    IF sales = <<>> THEN <<>>
    ELSE <<SaleEvent(holding, Head(sales))>> \o SaleEvents(holding, Tail(sales))

RECURSIVE DividendEvents(_, _)
DividendEvents(holding, dividends) ==
    IF dividends = <<>> THEN <<>>
    ELSE <<DividendEvent(holding, Head(dividends))>>
         \o DividendEvents(holding, Tail(dividends))

InYear(transactions, year) ==
    SelectSeq(transactions, LAMBDA t : YearOf(t.date) = year)

\* the events one holding pushes: its sales of the year, then its dividends
HoldingEvents(holding, year) ==
    SaleEvents(holding, InYear(OfType(holding.transactions, "sell"), year))
    \o DividendEvents(holding, InYear(OfType(holding.transactions, "dividend"), year))

RECURSIVE AllEvents(_, _)
AllEvents(hs, year) ==
    IF hs = <<>> THEN <<>>
    ELSE HoldingEvents(Head(hs), year) \o AllEvents(Tail(hs), year)

TaxableEvents(hs, year) == SortByDate(AllEvents(hs, year))

-----------------------------------------------------------------------------
(* The tax report over one holding *)

TaxBuyInputs ==
    {[type |-> "buy", date |-> d, shares |-> lot.shares,
      pricePerShare |-> p, fees |-> lot.fees] :
        d \in {Day(1), Day(200), Day(300) + 1},
        lot \in {[shares |-> 5, fees |-> 7], [shares |-> 10, fees |-> 0]},
        p \in {100, 120}}
    \cup
    {[type |-> "buy", date |-> d, shares |-> 0, pricePerShare |-> 100, fees |-> 0] :
        d \in {Day(1), Day(200)}}

TaxSellInputs ==
    {[type |-> "sell", date |-> d, shares |-> lot.shares,
      pricePerShare |-> 150, fees |-> lot.fees] :
        d \in {Day(300), Day(366)},
        lot \in {[shares |-> 5, fees |-> 7], [shares |-> 15, fees |-> 0]}}

TaxDividendInputs ==
    {[type |-> "dividend", date |-> Day(300), shares |-> 10,
      pricePerShare |-> 2, fees |-> 0]}

TaxTransactionInputs == TaxBuyInputs \cup TaxSellInputs \cup TaxDividendInputs

TaxYears == {0, 1}

TaxAddTransaction ==
    /\ TransactionCount(holdings) < MaxTransactions
    /\ \E h \in 1..Len(holdings), t \in TaxTransactionInputs :
           addTransaction(holdings[h].id, t)
    /\ taxableEvents' = NotComputed
    /\ UNCHANGED <<groups, exchangeRates, selectedYear, calculated, allocation>>

\* setSelectedYear
SetSelectedYear ==
    /\ \E y \in TaxYears : y # selectedYear /\ selectedYear' = y
    /\ taxableEvents' = NotComputed
    /\ UNCHANGED <<holdings, groups, exchangeRates, nextId, calculated, allocation>>

\* useMemo(() => ..., [holdings, selectedYear])
ComputeTaxableEvents ==
    /\ taxableEvents = NotComputed
    /\ taxableEvents' = [events |-> TaxableEvents(holdings, selectedYear)]
    /\ UNCHANGED <<holdings, groups, exchangeRates, nextId, selectedYear,
                   calculated, allocation>>

InitTax ==
    /\ InitSnapshots
    /\ holdings = <<[id |-> 1, shares |-> 0, currency |-> "USD", groupId |-> NoGroup,
                     currentPrice |-> 150, transactions |-> <<>>]>>
    /\ groups = DEFAULT_GROUPS
    /\ exchangeRates = DEFAULT_EXCHANGE_RATES
    /\ nextId = 2
    /\ selectedYear = 0
    /\ taxableEvents = NotComputed
    /\ calculated = NotComputed
    /\ allocation = NotComputed

NextTax ==
    \/ TaxAddTransaction /\ UNCHANGED <<varsTWR, varsAnalysis>>
    \/ SetSelectedYear /\ UNCHANGED <<varsTWR, varsAnalysis>>
    \/ ComputeTaxableEvents /\ UNCHANGED <<varsTWR, varsAnalysis>>

SpecTax == InitTax /\ [][NextTax]_vars

-----------------------------------------------------------------------------
(* calculationService.ts: calculateConcentrationRisk *)

MaxConcentrationHoldings == 5
TopHoldings == 5
ConcentratedIndex == 2500
ConcentratedPercent == 25

\* [...holdings].sort((a, b) => b.marketValueILS - a.marketValueILS)
RECURSIVE InsertByValueDesc(_, _)
InsertByValueDesc(sorted, x) ==
    IF sorted = <<>> THEN <<x>>
    ELSE IF RLt(sorted[Len(sorted)].marketValueILS, x.marketValueILS)
         THEN Append(InsertByValueDesc(SubSeq(sorted, 1, Len(sorted) - 1), x),
                     sorted[Len(sorted)])
         ELSE Append(sorted, x)

RECURSIVE SortByValueDesc(_)
SortByValueDesc(hs) ==
    IF hs = <<>> THEN <<>>
    ELSE InsertByValueDesc(SortByValueDesc(SubSeq(hs, 1, Len(hs) - 1)), hs[Len(hs)])

\* mutant: the weight squared before it is scaled to a percentage
HerfindahlTermUnscaled(h, totalValue) ==
    LET weight == RDiv(h.marketValueILS, totalValue)
    IN  RMul(RMul(weight, weight), R(100))

\* Math.pow(weight * 100, 2)
HerfindahlTerm(h, totalValue) ==
    LET weight == RDiv(h.marketValueILS, totalValue)
    IN  RMul(RMul(weight, R(100)), RMul(weight, R(100)))

RECURSIVE HerfindahlIndex(_, _)
HerfindahlIndex(hs, totalValue) ==
    IF hs = <<>> THEN Zero
    ELSE RAdd(HerfindahlIndex(SubSeq(hs, 1, Len(hs) - 1), totalValue),
              HerfindahlTerm(hs[Len(hs)], totalValue))

\* mutant: the thresholds themselves count as concentrated
IsConcentratedInclusive(herfindahlIndex, topHoldingPercent) ==
    \/ RLe(R(ConcentratedIndex), herfindahlIndex)
    \/ RLe(R(ConcentratedPercent), topHoldingPercent)

\* herfindahlIndex > 2500 || topHoldingPercent > 25
IsConcentrated(herfindahlIndex, topHoldingPercent) ==
    \/ RLt(R(ConcentratedIndex), herfindahlIndex)
    \/ RLt(R(ConcentratedPercent), topHoldingPercent)

calculateConcentrationRisk(hs) ==
    LET totalValue == SumMarketValueILS(hs)
    IN  IF totalValue = Zero
        THEN [topHoldingPercent |-> Zero,
              top5HoldingsPercent |-> Zero,
              herfindahlIndex |-> Zero,
              isConcentrated |-> FALSE]
        ELSE LET sorted == SortByValueDesc(hs)
                 topHoldingPercent ==
                     IF Len(sorted) > 0
                     THEN RMul(RDiv(sorted[1].marketValueILS, totalValue), R(100))
                     ELSE Zero
                 top5HoldingsPercent ==
                     RMul(RDiv(SumMarketValueILS(
                                   SubSeq(sorted, 1, Min(TopHoldings, Len(sorted)))),
                               totalValue),
                          R(100))
                 herfindahlIndex == HerfindahlIndex(hs, totalValue)
             IN  [topHoldingPercent |-> topHoldingPercent,
                  top5HoldingsPercent |-> top5HoldingsPercent,
                  herfindahlIndex |-> herfindahlIndex,
                  isConcentrated |-> IsConcentrated(herfindahlIndex, topHoldingPercent)]

\* HoldingForm submit data: positions of 1 and 3 units, one in USD, an empty
\* and a negative one
ConcentrationHoldingInputs ==
    [shares : {-1, 0, 1, 3}, currentPrice : {1}, currency : {"ILS"}, groupId : {NoGroup}]
    \cup [shares : {1}, currentPrice : {1}, currency : {"USD"}, groupId : {NoGroup}]

ConcentrationAddHolding ==
    /\ Len(holdings) < MaxConcentrationHoldings
    /\ \E holdingData \in ConcentrationHoldingInputs : addHolding(holdingData)
    /\ concentration' = NotComputed
    /\ calculated' = NotComputed
    /\ UNCHANGED <<groups, exchangeRates, selectedYear, taxableEvents, allocation>>

\* the holdingsWithCalc array after calculateConcentrationRisk(holdingsWithCalc)
ConcentrationArgument(hs) ==
    IF SumMarketValueILS(hs) = Zero THEN hs
    ELSE ArrayAfterSort(hs, SortByValueDesc(hs))

\* Analysis.tsx: holdingsWithCalc = holdings.map(calculateHolding), then
\* calculateConcentrationRisk(holdingsWithCalc)
CalculateConcentration ==
    /\ concentration = NotComputed
    /\ concentration' =
           calculateConcentrationRisk(HoldingsWithCalc(holdings, exchangeRates))
    /\ calculated' =
           [holdings |-> ConcentrationArgument(HoldingsWithCalc(holdings, exchangeRates))]
    /\ UNCHANGED <<holdings, groups, exchangeRates, nextId, selectedYear,
                   taxableEvents, allocation>>

InitConcentration == InitSnapshots /\ InitHoldings

NextConcentration ==
    \/ /\ ConcentrationAddHolding
       /\ UNCHANGED <<varsTWR, bonds, bondsWithCalc, riskMetrics, xirr, varsServices, lastAction>>
    \/ /\ CalculateConcentration
       /\ UNCHANGED <<varsTWR, bonds, bondsWithCalc, riskMetrics, xirr, varsServices, lastAction>>

SpecConcentration == InitConcentration /\ [][NextConcentration]_vars

-----------------------------------------------------------------------------
(* calculationService.ts: risk metrics over the snapshots *)

MinPeriods == 12
PeriodsPerYear == 12

\* stocksValue + bondsValue + cashTotal
TotalValue(snapshot) ==
    snapshot.stocksValue + snapshot.bondsValue + snapshot.cashTotal

\* calculateReturns: the loop from index i on, over the sorted snapshots
RECURSIVE ReturnsFrom(_, _)
ReturnsFrom(sorted, i) ==
    IF i > Len(sorted) THEN <<>>
    ELSE LET prevValue == TotalValue(sorted[i - 1])
             currValue == TotalValue(sorted[i])
         IN  IF prevValue > 0
             THEN <<Rat(currValue - prevValue, prevValue)>> \o ReturnsFrom(sorted, i + 1)
             ELSE ReturnsFrom(sorted, i + 1)

calculateReturns(snaps) ==
    IF Len(snaps) < 2 THEN <<>> ELSE ReturnsFrom(SortByDate(snaps), 2)

\* mutant: a drawdown equal to the maximum so far taken as a new maximum
IsNewMaxDrawdownInclusive(drawdown, maxDrawdown) == RLe(maxDrawdown, drawdown)

\* drawdown > maxDrawdown
IsNewMaxDrawdown(drawdown, maxDrawdown) == RLt(maxDrawdown, drawdown)

\* one pass of the loop of calculateMaxDrawdown
DrawdownStep(acc, snapshot) ==
    LET value == TotalValue(snapshot)
        peak == IF value > acc.peak THEN value ELSE acc.peak
        drawdown == IF peak > 0 THEN Rat(peak - value, peak) ELSE Zero
    IN  IF IsNewMaxDrawdown(drawdown, acc.maxDrawdown)
        THEN [peak |-> peak, maxDrawdown |-> drawdown,
              maxDrawdownDate |-> [date |-> snapshot.date]]
        ELSE [acc EXCEPT !.peak = peak]

RECURSIVE DrawdownLoop(_, _)
DrawdownLoop(sorted, n) ==
    IF n = 0
    THEN [peak |-> 0, maxDrawdown |-> Zero, maxDrawdownDate |-> Null]
    ELSE DrawdownStep(DrawdownLoop(sorted, n - 1), sorted[n])

calculateMaxDrawdown(snaps) ==
    IF Len(snaps) < 2
    THEN [maxDrawdown |-> Zero, maxDrawdownDate |-> Null]
    ELSE LET sorted == SortByDate(snaps)
             acc == DrawdownLoop(sorted, Len(sorted))
         IN  [maxDrawdown |-> RMul(acc.maxDrawdown, R(100)),
              maxDrawdownDate |-> acc.maxDrawdownDate]

\* values.reduce((a, b) => a + b, 0)
RECURSIVE SumOf(_)
SumOf(values) ==
    IF values = <<>> THEN Zero
    ELSE RAdd(SumOf(SubSeq(values, 1, Len(values) - 1)), values[Len(values)])

\* the squares of the distances of the values from a centre
SquaredDiffs(values, centre) ==
    [i \in 1..Len(values) |->
        RMul(RSub(values[i], centre), RSub(values[i], centre))]

\* Square roots are not rational: a deviation is carried as its square, and a
\* ratio as its numerator with the square of its denominator.

\* standardDeviation(values), squared
StandardDeviationSquared(values) ==
    IF Len(values) < 2 THEN Zero
    ELSE LET mean == RDiv(SumOf(values), R(Len(values)))
         IN  RDiv(SumOf(SquaredDiffs(values, mean)), R(Len(values) - 1))

RiskFreeRate == Rat(4, 100)
DownsideThreshold == Zero

\* mutant: the downside returns include those equal to the threshold
DownsideReturnsInclusive(returns, threshold) ==
    SelectSeq(returns, LAMBDA r : RLe(r, threshold))

\* returns.filter((r) => r < threshold)
DownsideReturns(returns, threshold) ==
    SelectSeq(returns, LAMBDA r : RLt(r, threshold))

\* downsideDeviation(returns, threshold), squared
DownsideDeviationSquared(returns, threshold) ==
    LET downsideReturns == DownsideReturns(returns, threshold)
    IN  IF Len(downsideReturns) < 2 THEN Zero
        ELSE RDiv(SumOf(SquaredDiffs(downsideReturns, threshold)),
                  R(Len(downsideReturns)))

\* mutant: one period return fewer required
TooFewPeriodsOffByOne(returns) == Len(returns) < MinPeriods - 1

\* returns.length < 12
TooFewPeriods(returns) == Len(returns) < MinPeriods

\* (annualizedReturn - riskFreeRate) / annualized deviation
RiskRatio(returns, deviationSquared) ==
    LET avgReturn == RDiv(SumOf(returns), R(Len(returns)))
        annualizedReturn == RMul(avgReturn, R(PeriodsPerYear))
        annualizedSquared == RMul(deviationSquared, R(PeriodsPerYear))
    IN  IF annualizedSquared = Zero THEN Null
        ELSE [numerator |-> RSub(annualizedReturn, RiskFreeRate),
              denominatorSquared |-> annualizedSquared]

calculateSharpeRatio(snaps) ==
    LET returns == calculateReturns(snaps)
    IN  IF TooFewPeriods(returns) THEN Null
        ELSE RiskRatio(returns, StandardDeviationSquared(returns))

calculateSortinoRatio(snaps) ==
    LET returns == calculateReturns(snaps)
    IN  IF TooFewPeriods(returns) THEN Null
        ELSE RiskRatio(returns, DownsideDeviationSquared(returns, DownsideThreshold))

\* calculateRiskMetrics; volatility is standardDeviation * sqrt(12) * 100
calculateRiskMetrics(snaps) ==
    LET drawdown == calculateMaxDrawdown(snaps)
    IN  [sharpeRatio |-> calculateSharpeRatio(snaps),
         sortinoRatio |-> calculateSortinoRatio(snaps),
         maxDrawdown |-> drawdown.maxDrawdown,
         maxDrawdownDate |-> drawdown.maxDrawdownDate,
         volatilitySquared |->
             RMul(RMul(StandardDeviationSquared(calculateReturns(snaps)),
                       R(PeriodsPerYear)),
                  R(10000)),
         beta |-> Null]

\* Analysis.tsx: calculateRiskMetrics(snapshots)
CalculateRiskMetrics ==
    /\ riskMetrics = NotComputed
    /\ riskMetrics' = calculateRiskMetrics(snapshots)
    /\ snapshots' = IF Len(snapshots) < 2 THEN snapshots
                    ELSE ArrayAfterSort(snapshots, SortByDate(snapshots))
    /\ UNCHANGED twr

\* snapshots with equal and out-of-order dates; the totals include an empty
\* portfolio and an overdrawn cash account
DrawdownSnapshotInputs ==
    [date : {Day(1), Day(2)}, stocksValue : {0, 100, 200}, bondsValue : {0},
     cashTotal : {-50, 0}]

DrawdownAddSnapshot ==
    /\ \E s \in DrawdownSnapshotInputs : addSnapshot(s)
    /\ riskMetrics' = NotComputed

InitDrawdown == InitSnapshots /\ InitHoldings

NextDrawdown ==
    \/ /\ DrawdownAddSnapshot
       /\ UNCHANGED <<varsHoldings, bonds, bondsWithCalc, concentration, xirr, varsServices,
                      lastAction>>
    \/ /\ CalculateRiskMetrics
       /\ UNCHANGED <<varsHoldings, bonds, bondsWithCalc, concentration, xirr, varsServices,
                      lastAction>>

SpecDrawdown == InitDrawdown /\ [][NextDrawdown]_vars

-----------------------------------------------------------------------------
(* A year of monthly snapshots and the risk ratios *)

MaxRiskSnapshots == 13
MaxVariedSnapshots == 2
DaysPerMonth == 30

\* a steady portfolio of 100, apart from a few months: emptied or halved
RiskBaseValue == 100
RiskVariedValues == {0, 50}

VariedCount(snaps) ==
    Cardinality({i \in 1..Len(snaps) : snaps[i].stocksValue # RiskBaseValue})

\* the snapshot taken a month after the last one
MonthlySnapshot(value) ==
    [date |-> Day(DaysPerMonth * (Len(snapshots) + 1)), stocksValue |-> value,
     bondsValue |-> 0, cashTotal |-> 0]

RiskAddSnapshot ==
    /\ Len(snapshots) < MaxRiskSnapshots
    /\ \E value \in {RiskBaseValue} \cup RiskVariedValues :
           /\ value # RiskBaseValue => VariedCount(snapshots) < MaxVariedSnapshots
           /\ snapshots' = Append(snapshots, MonthlySnapshot(value))
    /\ twr' = NotComputed
    /\ riskMetrics' = NotComputed

InitRisk == InitSnapshots /\ InitHoldings

NextRisk ==
    \/ /\ RiskAddSnapshot
       /\ UNCHANGED <<varsHoldings, bonds, bondsWithCalc, concentration, xirr, varsServices,
                      lastAction>>
    \/ /\ CalculateRiskMetrics
       /\ UNCHANGED <<varsHoldings, bonds, bondsWithCalc, concentration, xirr, varsServices,
                      lastAction>>

SpecRisk == InitRisk /\ [][NextRisk]_vars

-----------------------------------------------------------------------------
(* The holdings and groups actions of the store *)

MaxStoreHoldings == 2
MaxStoreTransactions == 2

\* HoldingForm submit data
StoreHoldingInputs ==
    [shares : {10}, currentPrice : {100}, currency : {"ILS"},
     groupId : {"bonds"}]

\* HoldingForm submit data of an edited holding
StoreUpdateInputs ==
    [shares : {0}, currentPrice : {150}, currency : {"ILS"},
     groupId : {"stocks-us"}]

StoreTransactionInputs ==
    {[type |-> "buy", date |-> Day(1), shares |-> 10, pricePerShare |-> 100, fees |-> 0],
     [type |-> "sell", date |-> Day(2), shares |-> 5, pricePerShare |-> 150, fees |-> 7]}

StoreGroupIds == {"bonds"}

StoreAddHolding ==
    /\ Len(holdings) < MaxStoreHoldings
    /\ \E holdingData \in StoreHoldingInputs : addHolding(holdingData)
    /\ lastAction' = [op |-> "addHolding"]
    /\ UNCHANGED <<groups, exchangeRates, selectedYear, taxableEvents, calculated,
                   allocation>>

\* Holdings.tsx handleSave on an edited holding: the form's fields
StoreUpdateHolding ==
    /\ \E h \in 1..Len(holdings), holdingData \in StoreUpdateInputs :
           updateHolding(holdings[h].id, holdingData)
    /\ lastAction' = [op |-> "updateHolding"]
    /\ UNCHANGED <<groups, exchangeRates, nextId, selectedYear, taxableEvents,
                   calculated, allocation>>

StoreAddTransaction ==
    /\ TransactionCount(holdings) < MaxStoreTransactions
    /\ \E h \in 1..Len(holdings), t \in StoreTransactionInputs :
           addTransaction(holdings[h].id, t)
    /\ lastAction' = [op |-> "addTransaction"]
    /\ UNCHANGED <<groups, exchangeRates, selectedYear, taxableEvents, calculated,
                   allocation>>

StoreUpdateHoldingPrice ==
    /\ \E h \in 1..Len(holdings) :
           /\ holdings[h].currentPrice # 150
           /\ updateHoldingPrice(holdings[h].id, 150)
    /\ lastAction' = [op |-> "updateHoldingPrice"]
    /\ UNCHANGED <<groups, exchangeRates, nextId, selectedYear, taxableEvents,
                   calculated, allocation>>

StoreDeleteGroup ==
    /\ \E id \in StoreGroupIds :
           /\ deleteGroup(id)
           /\ lastAction' = [op |-> "deleteGroup", id |-> id]
    /\ UNCHANGED <<exchangeRates, nextId, selectedYear, taxableEvents, calculated,
                   allocation>>

InitStore == InitSnapshots /\ InitHoldings

NextStore ==
    \/ /\ StoreAddHolding
       /\ UNCHANGED <<varsTWR, bonds, bondsWithCalc, concentration, riskMetrics, xirr, varsServices>>
    \/ /\ StoreUpdateHolding
       /\ UNCHANGED <<varsTWR, bonds, bondsWithCalc, concentration, riskMetrics, xirr, varsServices>>
    \/ /\ StoreAddTransaction
       /\ UNCHANGED <<varsTWR, bonds, bondsWithCalc, concentration, riskMetrics, xirr, varsServices>>
    \/ /\ StoreUpdateHoldingPrice
       /\ UNCHANGED <<varsTWR, bonds, bondsWithCalc, concentration, riskMetrics, xirr, varsServices>>
    \/ /\ StoreDeleteGroup
       /\ UNCHANGED <<varsTWR, bonds, bondsWithCalc, concentration, riskMetrics, xirr, varsServices>>

SpecStore == InitStore /\ [][NextStore]_vars

-----------------------------------------------------------------------------
(* calculationService.ts: calculateXIRR, one loop iteration per step *)

MaxIterations == 100

\* a number that is not finite: Infinity, -Infinity or NaN.  Every comparison
\* the function makes with one (Math.abs(x) < positive bound) is false.
NonFinite == [kind |-> "non-finite"]

IsFinite(x) == x # NonFinite

XAdd(a, b) == IF IsFinite(a) /\ IsFinite(b) THEN RAdd(a, b) ELSE NonFinite
XSub(a, b) == IF IsFinite(a) /\ IsFinite(b) THEN RSub(a, b) ELSE NonFinite
XMul(a, b) == IF IsFinite(a) /\ IsFinite(b) THEN RMul(a, b) ELSE NonFinite

\* a / b; a finite zero denominator gives Infinity or NaN
XDiv(a, b) ==
    IF IsFinite(a) /\ IsFinite(b) /\ b.n # 0 THEN RDiv(a, b) ELSE NonFinite

\* Math.pow(base, k) for a whole number k >= 0 (Math.pow(0, 0) is 1)
RECURSIVE XPow(_, _)
XPow(base, k) ==
    IF k = 0 THEN One
    ELSE IF IsFinite(base) THEN RMul(XPow(base, k - 1), base) ELSE NonFinite

\* (cf.date.getTime() - firstDate.getTime()) / (365 * 24 * 60 * 60 * 1000);
\* the cash flows of the model lie whole years apart
Years(cf, firstDate) == (cf.date - firstDate) \div Day(DaysPerYear)

\* Math.pow(1 + rate, k)
Discount(rate, k) == XPow(XAdd(One, rate), k)

RECURSIVE Xnpv(_, _, _)
Xnpv(sorted, n, rate) ==
    IF n = 0 THEN Zero
    ELSE XAdd(Xnpv(sorted, n - 1, rate),
              XDiv(R(sorted[n].amount),
                   Discount(rate, Years(sorted[n], sorted[1].date))))

RECURSIVE XnpvDerivative(_, _, _)
XnpvDerivative(sorted, n, rate) ==
    IF n = 0 THEN Zero
    ELSE LET years == Years(sorted[n], sorted[1].date)
         IN  XSub(XnpvDerivative(sorted, n - 1, rate),
                  XDiv(R(years * sorted[n].amount), Discount(rate, years + 1)))

\* some division of one iteration has a finite zero denominator (npv / derivative
\* is reached only with a derivative that is not 0)
ZeroDenominator(sorted, rate) ==
    LET Is0(x) == IsFinite(x) /\ x.n = 0
    IN  \E n \in 1..Len(sorted) :
            LET years == Years(sorted[n], sorted[1].date)
            IN  Is0(Discount(rate, years)) \/ Is0(Discount(rate, years + 1))

\* mutant: the loop without its guard on the derivative
DerivativeTooSmallUnguarded(derivative) == FALSE

\* Math.abs(derivative) < 1e-10: a rational whose denominator is below 10^10
\* is that small only when it is 0
DerivativeTooSmall(derivative) == IsFinite(derivative) /\ derivative.n = 0

\* Math.abs(newRate - rate) < tolerance, tolerance = 0.00001
WithinTolerance(newRate, rate) ==
    /\ IsFinite(newRate) /\ IsFinite(rate)
    /\ RLt(RAbs(RSub(newRate, rate)), Rat(1, 100000))

DefaultGuess == Rat(1, 10)

\* entry of calculateXIRR(cashFlows); fewer than 2 cash flows return null at once
XirrCall(cashFlows) ==
    /\ xirr = NotComputed
    /\ xirr' = IF Len(cashFlows) < 2
               THEN [pc |-> "done", cashFlows |-> cashFlows, sorted |-> <<>>,
                     rate |-> DefaultGuess, i |-> 0, result |-> Null,
                     dividedByZero |-> FALSE]
               ELSE [pc |-> "loop",
                     cashFlows |-> ArrayAfterSort(cashFlows, SortByDate(cashFlows)),
                     sorted |-> SortByDate(cashFlows),
                     rate |-> DefaultGuess, i |-> 0, result |-> Null,
                     dividedByZero |-> FALSE]

\* one pass through the body of the for loop
XirrIterate ==
    /\ xirr # NotComputed
    /\ xirr.pc = "loop"
    /\ xirr.i < MaxIterations
    /\ LET npv == Xnpv(xirr.sorted, Len(xirr.sorted), xirr.rate)
           derivative == XnpvDerivative(xirr.sorted, Len(xirr.sorted), xirr.rate)
           newRate == XSub(xirr.rate, XDiv(npv, derivative))
           zero == xirr.dividedByZero \/ ZeroDenominator(xirr.sorted, xirr.rate)
       IN  xirr' =
               IF DerivativeTooSmall(derivative)
               THEN [xirr EXCEPT !.pc = "done", !.result = Null,
                                 !.dividedByZero = zero]
               ELSE IF WithinTolerance(newRate, xirr.rate)
               THEN [xirr EXCEPT !.pc = "done",
                                 !.result = [value |-> RMul(newRate, R(100))],
                                 !.dividedByZero = zero]
               ELSE [xirr EXCEPT !.rate = newRate, !.i = @ + 1,
                                 !.dividedByZero = zero]

\* the loop ran maxIterations times: return null
XirrExhausted ==
    /\ xirr # NotComputed
    /\ xirr.pc = "loop"
    /\ xirr.i >= MaxIterations
    /\ xirr' = [xirr EXCEPT !.pc = "done", !.result = Null]

CashFlow(day, amount) == [date |-> Day(day), amount |-> amount]

\* cash-flow series whose iteration stays within the model's integers: it ends
\* in the first pass (exact hit, flat derivative) or leaves the finite numbers
XirrInputs ==
    {<<>>,
     <<CashFlow(0, -100)>>,
     <<CashFlow(0, -100), CashFlow(365, 110)>>,
     <<CashFlow(365, 110), CashFlow(0, -100)>>,
     <<CashFlow(0, -100), CashFlow(0, 110)>>,
     <<CashFlow(0, -100), CashFlow(0, 50), CashFlow(365, 55)>>,
     <<CashFlow(0, -20), CashFlow(365, 11)>>,
     <<CashFlow(365, 22), CashFlow(0, -40)>>}

NextXirr ==
    \/ /\ \E cashFlows \in XirrInputs : XirrCall(cashFlows)
       /\ UNCHANGED <<varsTWR, varsHoldings, bonds, bondsWithCalc, concentration,
                      riskMetrics, lastAction, varsServices>>
    \/ /\ XirrIterate
       /\ UNCHANGED <<varsTWR, varsHoldings, bonds, bondsWithCalc, concentration,
                      riskMetrics, lastAction, varsServices>>
    \/ /\ XirrExhausted
       /\ UNCHANGED <<varsTWR, varsHoldings, bonds, bondsWithCalc, concentration,
                      riskMetrics, lastAction, varsServices>>

InitXirr == InitSnapshots /\ InitHoldings

SpecXirr == InitXirr /\ [][NextXirr]_vars

-----------------------------------------------------------------------------
(* The calculation functions called over the arrays of the store *)

\* snapshots out of date order and with equal dates
PureSnapshotInputs ==
    {[date |-> Day(2), valueBeforeFlow |-> 1000, cashFlow |-> 0,
      stocksValue |-> 100, bondsValue |-> 0, cashTotal |-> 0],
     [date |-> Day(1), valueBeforeFlow |-> 1100, cashFlow |-> 0,
      stocksValue |-> 200, bondsValue |-> 0, cashTotal |-> 0]}

\* positions of unequal market value
PureHoldingInputs ==
    [shares : {1, 3}, currentPrice : {1}, currency : {"ILS"}, groupId : {"stocks-us"}]

\* cash flows in date order and out of it
PureCashFlowInputs ==
    {<<CashFlow(0, -100), CashFlow(365, 110)>>,
     <<CashFlow(365, 110), CashFlow(0, -100)>>}

PureAddSnapshot ==
    /\ \E s \in PureSnapshotInputs : addSnapshot(s)
    /\ riskMetrics' = NotComputed
    /\ lastAction' = [op |-> "addSnapshot"]
    /\ UNCHANGED <<varsHoldings, bonds, bondsWithCalc, concentration, xirr, varsServices>>

PureAddHolding ==
    /\ Len(holdings) < MaxHoldings
    /\ \E holdingData \in PureHoldingInputs : addHolding(holdingData)
    /\ calculated' = NotComputed
    /\ allocation' = NotComputed
    /\ concentration' = NotComputed
    /\ lastAction' = [op |-> "addHolding"]
    /\ UNCHANGED <<groups, exchangeRates, selectedYear, taxableEvents, varsTWR, bonds,
                   bondsWithCalc, riskMetrics, xirr, varsServices>>

PureCalculateTWR ==
    /\ SummaryTWR
    /\ lastAction' = [op |-> "calculateTWR"]
    /\ UNCHANGED <<varsHoldings, bonds, bondsWithCalc, concentration, riskMetrics, xirr, varsServices>>

PureCalculateRiskMetrics ==
    /\ CalculateRiskMetrics
    /\ lastAction' = [op |-> "calculateRiskMetrics"]
    /\ UNCHANGED <<varsHoldings, bonds, bondsWithCalc, concentration, xirr, varsServices>>

PureCalculateConcentration ==
    /\ CalculateConcentration
    /\ lastAction' = [op |-> "calculateConcentrationRisk"]
    /\ UNCHANGED <<varsTWR, bonds, bondsWithCalc, riskMetrics, xirr, varsServices>>

PureCalculateAllocation ==
    /\ CalculateAllocation
    /\ lastAction' = [op |-> "calculateAllocation"]
    /\ UNCHANGED <<varsTWR, bonds, bondsWithCalc, concentration, riskMetrics, xirr, varsServices>>

PureCalculateXIRR ==
    /\ \E cashFlows \in PureCashFlowInputs :
           /\ XirrCall(cashFlows)
           /\ lastAction' = [op |-> "calculateXIRR", cashFlows |-> cashFlows]
    /\ UNCHANGED <<varsTWR, varsHoldings, bonds, bondsWithCalc, concentration,
                   riskMetrics, varsServices>>

PureXirrIterate ==
    /\ XirrIterate
    /\ UNCHANGED <<varsTWR, varsHoldings, bonds, bondsWithCalc, concentration,
                   riskMetrics, lastAction, varsServices>>

InitPure == InitSnapshots /\ InitHoldings

NextPure ==
    \/ PureAddSnapshot
    \/ PureAddHolding
    \/ PureCalculateTWR
    \/ PureCalculateRiskMetrics
    \/ PureCalculateConcentration
    \/ PureCalculateAllocation
    \/ PureCalculateXIRR
    \/ PureXirrIterate

SpecPure == InitPure /\ [][NextPure]_vars

-----------------------------------------------------------------------------
(* Claims about the tax matcher *)

TaxComputed == taxableEvents # NotComputed

\* the (holding, sell transaction) pairs of the store
StoredSales ==
    {[h |-> h, sale |-> t] :
        h \in SeqToSet(holdings),
        t \in UNION {SeqToSet(OfType(g.transactions, "sell")) : g \in SeqToSet(holdings)}}

SalesOfHoldings ==
    {x \in StoredSales : x.sale \in SeqToSet(x.h.transactions)}

SalesInYear == {x \in SalesOfHoldings : YearOf(x.sale.date) = selectedYear}

EventsWithId(id) == {e \in SeqToSet(taxableEvents.events) : e.id = id}

\* the buys dated on or before the sale, in stored order
EligibleBuys(h, sale) ==
    SelectSeq(OfType(h.transactions, "buy"), LAMBDA b : b.date <= sale.date)

RECURSIVE SharesBefore(_, _)
SharesBefore(lots, i) ==
    IF i <= 1 THEN 0 ELSE lots[i - 1].shares + SharesBefore(lots, i - 1)

\* what lot i gives to a sale of saleShares shares
ClaimMatchedShares(lots, i, saleShares) ==
    LET remaining == saleShares - SharesBefore(lots, i)
    IN  Min(IF remaining > 0 THEN remaining ELSE 0, lots[i].shares)

RECURSIVE ClaimCostBasis(_, _, _)
ClaimCostBasis(lots, n, saleShares) ==
    IF n = 0 THEN 0
    ELSE ClaimCostBasis(lots, n - 1, saleShares)
         + ClaimMatchedShares(lots, n, saleShares) * lots[n].pricePerShare

RECURSIVE ClaimTotalMatched(_, _, _)
ClaimTotalMatched(lots, n, saleShares) ==
    IF n = 0 THEN 0
    ELSE ClaimTotalMatched(lots, n - 1, saleShares)
         + ClaimMatchedShares(lots, n, saleShares)

\* buy 10@100 on day 1, buy 10@120 on day 200, sell 15@150 on day 300, no fees
IsTaxScenario ==
    /\ Len(holdings) = 1
    /\ selectedYear = YearOf(Day(300))
    /\ WithoutIds(holdings[1].transactions) =
           <<[type |-> "buy", date |-> Day(1), shares |-> 10,
              pricePerShare |-> 100, fees |-> 0],
             [type |-> "buy", date |-> Day(200), shares |-> 10,
              pricePerShare |-> 120, fees |-> 0],
             [type |-> "sell", date |-> Day(300), shares |-> 15,
              pricePerShare |-> 150, fees |-> 0]>>

\* C4: each sale of the selected year yields one event whose cost basis is the
\* sum, over the buys dated on or before the sale in stored order, of
\* min(remaining sale shares, buy.shares) * buy.pricePerShare (no buy fees),
\* and whose gainLoss is shares * pricePerShare - cost basis - sale fees; the
\* scenario gives costBasis 1600, proceeds 2250, gainLoss 650.
C4_FifoCostBasis ==
    TaxComputed =>
        /\ \A x \in SalesInYear :
               LET lots == EligibleBuys(x.h, x.sale)
                   cost == ClaimCostBasis(lots, Len(lots), x.sale.shares)
               IN  /\ Cardinality(EventsWithId(x.sale.id)) = 1
                   /\ \A e \in EventsWithId(x.sale.id) :
                          /\ e.type = "sale"
                          /\ e.costBasis = cost
                          /\ e.proceeds = x.sale.shares * x.sale.pricePerShare
                          /\ e.gainLoss =
                                 x.sale.shares * x.sale.pricePerShare - cost - x.sale.fees
        /\ IsTaxScenario =>
               /\ Len(taxableEvents.events) = 1
               /\ taxableEvents.events[1].costBasis = 1600
               /\ taxableEvents.events[1].proceeds = 2250
               /\ taxableEvents.events[1].gainLoss = 650

C4_Witness == TaxComputed /\ IsTaxScenario

\* the buys FIFO reaches before the sale is satisfied
ReachedBuyDates(lots, saleShares) ==
    {lots[i].date : i \in {j \in 1..Len(lots) : SharesBefore(lots, j) < saleShares}}

Earliest(dates) == CHOOSE d \in dates : \A other \in dates : d <= other

\* C5: holdingPeriodDays is the number of whole days from the earliest matched
\* buy to the sale, and the event is short-term iff that is below 365; in the
\* scenario it is counted from day 1 (299 days, short-term).
C5_HoldingPeriod ==
    TaxComputed =>
        /\ \A x \in SalesInYear : \A e \in EventsWithId(x.sale.id) :
               LET lots == EligibleBuys(x.h, x.sale)
                   dates == ReachedBuyDates(lots, x.sale.shares)
               IN  /\ dates # {} =>
                          LET elapsed == x.sale.date - Earliest(dates)
                          IN  /\ e.holdingPeriodDays * TicksPerDay <= elapsed
                              /\ elapsed < (e.holdingPeriodDays + 1) * TicksPerDay
                   /\ e.isShortTerm <=> e.holdingPeriodDays < 365
        /\ IsTaxScenario =>
               /\ taxableEvents.events[1].holdingPeriodDays = 299
               /\ taxableEvents.events[1].isShortTerm

C5_Witness ==
    /\ TaxComputed
    /\ \E x \in SalesInYear : \E e \in EventsWithId(x.sale.id) :
           /\ e.holdingPeriodDays = 365
           /\ ~e.isShortTerm
           /\ Len(EligibleBuys(x.h, x.sale)) >= 2

C5_WitnessPartDay ==
    /\ TaxComputed
    /\ \E x \in SalesInYear : \E e \in EventsWithId(x.sale.id) :
           /\ ReachedBuyDates(EligibleBuys(x.h, x.sale), x.sale.shares) # {}
           /\ e.holdingPeriodDays * TicksPerDay
                  < x.sale.date
                    - Earliest(ReachedBuyDates(EligibleBuys(x.h, x.sale), x.sale.shares))

WithoutOtherSells(h, sale) ==
    [h EXCEPT !.transactions =
        SelectSeq(@, LAMBDA t : t.type # "sell" \/ t.id = sale.id)]

\* C6: the event of a sale is the one the matcher computes when the holding
\* has no other sell transaction.
C6_NoDepletionAcrossSales ==
    TaxComputed =>
        \A x \in SalesInYear : \A e \in EventsWithId(x.sale.id) :
            e = SaleEvent(WithoutOtherSells(x.h, x.sale), x.sale)

RECURSIVE MatchedBySales(_, _)
MatchedBySales(h, sales) ==
    IF sales = <<>> THEN 0
    ELSE LET lots == EligibleBuys(h, Head(sales))
         IN  ClaimTotalMatched(lots, Len(lots), Head(sales).shares)
             + MatchedBySales(h, Tail(sales))

MatchedInYear(h) ==
    MatchedBySales(h, SelectSeq(OfType(h.transactions, "sell"),
                                LAMBDA t : YearOf(t.date) = selectedYear))

\* several sales of one year matched to more shares than were ever bought
C6_Witness ==
    /\ TaxComputed
    /\ \E h \in SeqToSet(holdings) :
           /\ Cardinality({x \in SalesInYear : x.h = h}) >= 2
           /\ \A x \in SalesInYear : Cardinality(EventsWithId(x.sale.id)) = 1
           /\ MatchedInYear(h) > SumShares(OfType(h.transactions, "buy"))
           /\ SumShares(OfType(h.transactions, "buy")) > 0

-----------------------------------------------------------------------------
(* Claims about calculateHolding *)

HoldingsComputed == calculated # NotComputed

\* sum of shares * pricePerShare + fees over the buys among the first n
RECURSIVE ClaimBuyCost(_, _)
ClaimBuyCost(transactions, n) ==
    IF n = 0 THEN 0
    ELSE ClaimBuyCost(transactions, n - 1)
         + (IF transactions[n].type = "buy"
            THEN transactions[n].shares * transactions[n].pricePerShare
                 + transactions[n].fees
            ELSE 0)

IsSingleBuyAtCurrentPrice(h) ==
    /\ Len(h.transactions) = 1
    /\ h.transactions[1].type = "buy"
    /\ h.shares = h.transactions[1].shares
    /\ h.currentPrice = h.transactions[1].pricePerShare

\* 10 shares bought at 100 with no fees, currentPrice 150
IsHoldingScenario(h) ==
    /\ WithoutIds(h.transactions) =
           <<[type |-> "buy", date |-> Day(1), shares |-> 10,
              pricePerShare |-> 100, fees |-> 0]>>
    /\ h.shares = 10
    /\ h.currentPrice = 150

\* C10: costBasis sums shares * pricePerShare + fees over the buys only,
\* marketValue is the stored shares times currentPrice, gainLoss is their
\* difference; a single buy held at its purchase price shows gainLoss = -fees,
\* and the scenario gives 1000, 1500, 500 and 50 percent.
C10_HoldingValuation ==
    HoldingsComputed =>
        \A i \in 1..Len(holdings) :
            LET h == holdings[i]
                c == calculated.holdings[i]
            IN  /\ c.costBasis = ClaimBuyCost(h.transactions, Len(h.transactions))
                /\ c.marketValue = h.shares * h.currentPrice
                /\ c.gainLoss = c.marketValue - c.costBasis
                /\ IsSingleBuyAtCurrentPrice(h) => c.gainLoss = 0 - h.transactions[1].fees
                /\ IsHoldingScenario(h) =>
                       /\ c.costBasis = 1000
                       /\ c.marketValue = 1500
                       /\ c.gainLoss = 500
                       /\ c.gainLossPercent = R(50)

C10_Witness ==
    /\ HoldingsComputed
    /\ \E i \in 1..Len(holdings) : IsHoldingScenario(holdings[i])

C10_WitnessFeesOnly ==
    /\ HoldingsComputed
    /\ \E i \in 1..Len(holdings) :
           /\ IsSingleBuyAtCurrentPrice(holdings[i])
           /\ calculated.holdings[i].gainLoss < 0

C10_WitnessStoredShares ==
    /\ HoldingsComputed
    /\ \E i \in 1..Len(holdings) :
           /\ holdings[i].shares
                  # SumShares(OfType(holdings[i].transactions, "buy"))
                    - SumShares(OfType(holdings[i].transactions, "sell"))
           /\ Len(OfType(holdings[i].transactions, "sell")) >= 1
           /\ calculated.holdings[i].costBasis > 0

\* C11: an amount in ILS is returned unchanged; an amount in USD or EUR is
\* returned multiplied by the rate of its currency in the rate table in force.
C11_ConvertToILS ==
    HoldingsComputed =>
        \A i \in 1..Len(holdings) :
            LET h == holdings[i]
                amount == h.shares * h.currentPrice
                converted == calculated.holdings[i].marketValueILS
                rate == exchangeRates[h.currency]
            IN  /\ h.currency = "ILS" => converted = R(amount)
                /\ h.currency \in {"USD", "EUR"} =>
                       /\ converted.n * rate.d = amount * rate.n * converted.d
                       /\ converted.d > 0

\* a non-zero EUR amount converted under a rate table other than the default
C11_Witness ==
    /\ HoldingsComputed
    /\ exchangeRates # DEFAULT_EXCHANGE_RATES
    /\ \E i \in 1..Len(holdings) :
           /\ holdings[i].currency = "EUR"
           /\ holdings[i].shares # 0
           /\ calculated.holdings[i].marketValueILS # R(holdings[i].shares * holdings[i].currentPrice)

C11_WitnessReportingCurrency ==
    /\ HoldingsComputed
    /\ \E i \in 1..Len(holdings) :
           holdings[i].currency = "ILS" /\ holdings[i].shares # 0

-----------------------------------------------------------------------------
(* Claims about gainLossPercent *)

ValuationsComputed == calculated # NotComputed /\ bondsWithCalc # NotComputed

\* the cost bases and results of the valuated holdings and bonds
ValuationResults ==
    {[costBasis |-> calculated.holdings[i].costBasis,
      gainLoss |-> calculated.holdings[i].gainLoss,
      gainLossPercent |-> calculated.holdings[i].gainLossPercent,
      of |-> "holding"] : i \in 1..Len(calculated.holdings)}
    \cup
    {[costBasis |-> bondsWithCalc.bonds[i].costBasis,
      gainLoss |-> bondsWithCalc.bonds[i].gainLoss,
      gainLossPercent |-> bondsWithCalc.bonds[i].gainLossPercent,
      of |-> "bond"] : i \in 1..Len(bondsWithCalc.bonds)}

\* p = gainLoss / costBasis * 100, for costBasis # 0
IsPercentOfCost(p, gainLoss, costBasis) ==
    p.n * costBasis = gainLoss * 100 * p.d

\* C13 as stated: gainLossPercent is gainLoss / costBasis * 100 whenever
\* costBasis is not 0, and 0 when costBasis is 0.
C13_GainLossPercentNonZero ==
    ValuationsComputed =>
        \A r \in ValuationResults :
            /\ r.costBasis # 0 =>
                   IsPercentOfCost(r.gainLossPercent, r.gainLoss, r.costBasis)
            /\ r.costBasis = 0 => r.gainLossPercent = Zero

\* C13 amended: gainLossPercent is gainLoss / costBasis * 100 whenever costBasis
\* is greater than 0, and 0 whenever costBasis is 0 or negative.
C13_GainLossPercentPositive ==
    ValuationsComputed =>
        \A r \in ValuationResults :
            /\ r.costBasis > 0 =>
                   IsPercentOfCost(r.gainLossPercent, r.gainLoss, r.costBasis)
            /\ r.costBasis <= 0 => r.gainLossPercent = Zero

\* a holding and a bond with positive and with negative cost basis and a gain
\* or loss that is not 0
C13_Witness ==
    /\ ValuationsComputed
    /\ \E r \in ValuationResults :
           r.of = "holding" /\ r.costBasis > 0 /\ r.gainLossPercent # Zero
    /\ \E r \in ValuationResults :
           r.of = "bond" /\ r.costBasis < 0 /\ r.gainLoss # 0

C13_WitnessNegativeHolding ==
    /\ ValuationsComputed
    /\ \E r \in ValuationResults :
           r.of = "holding" /\ r.costBasis < 0 /\ r.gainLoss # 0
    /\ \E r \in ValuationResults :
           r.of = "bond" /\ r.costBasis = 0 /\ r.gainLoss # 0

-----------------------------------------------------------------------------
(* Claims about calculateXIRR *)

XirrStarted == xirr # NotComputed

\* C12: no step of a core calculation divides by a zero denominator; for
\* calculateXIRR: no pass of its loop divides a cash flow by Math.pow(1 + rate,
\* years) = 0.
C12_DivisionGuarded ==
    XirrStarted => ~xirr.dividedByZero

-----------------------------------------------------------------------------
(* Claims about calculateAllocation *)

AllocComputed == allocation # NotComputed

\* a holding's market value in ILS, from the store's fields
ClaimValueILS(h) ==
    IF h.currency = "ILS"
    THEN R(h.shares * h.currentPrice)
    ELSE RMul(R(h.shares * h.currentPrice), exchangeRates[h.currency])

\* sum of ClaimValueILS over the first n holdings whose groupId is in gids
RECURSIVE ClaimValueOf(_, _)
ClaimValueOf(gids, n) ==
    IF n = 0 THEN Zero
    ELSE RAdd(ClaimValueOf(gids, n - 1),
              IF holdings[n].groupId \in gids THEN ClaimValueILS(holdings[n]) ELSE Zero)

AnyGroupId == {NoGroup} \cup {h.groupId : h \in SeqToSet(holdings)}

ClaimTotalValue == ClaimValueOf(AnyGroupId, Len(holdings))

ClaimGroupValue(gid) == ClaimValueOf({gid}, Len(holdings))

RECURSIVE SumCurrentValue(_, _)
SumCurrentValue(items, n) ==
    IF n = 0 THEN Zero
    ELSE RAdd(SumCurrentValue(items, n - 1), items[n].currentValue)

SumOfItems == SumCurrentValue(allocation.items, Len(allocation.items))

GroupIdsDistinct ==
    \A i, j \in 1..Len(groups) : i # j => groups[i].id # groups[j].id

NoNegativeHolding ==
    \A h \in SeqToSet(holdings) : RLe(Zero, ClaimValueILS(h))

\* C7 as stated: for a non-empty group list and total value > 0, the items'
\* currentValue sum to at most totalValue.
C7_SumOfGroupsAtMostTotal ==
    (AllocComputed /\ Len(groups) >= 1 /\ RLt(Zero, allocation.totalValue)) =>
        RLe(SumOfItems, allocation.totalValue)

\* C7 amended: the same, for groups with pairwise distinct ids and holdings
\* none of which has a negative market value.
C7_SumOfGroupsAtMostTotalAmended ==
    (/\ AllocComputed
     /\ Len(groups) >= 1
     /\ RLt(Zero, allocation.totalValue)
     /\ GroupIdsDistinct
     /\ NoNegativeHolding) =>
        RLe(SumOfItems, allocation.totalValue)

C7_Witness ==
    /\ AllocComputed
    /\ Len(groups) >= 2
    /\ GroupIdsDistinct
    /\ NoNegativeHolding
    /\ RLt(Zero, SumOfItems)
    /\ RLt(SumOfItems, allocation.totalValue)

\* C8: when the holdings' total value is 0, every group's item has
\* currentValue 0, currentPercent 0, difference -targetPercent and
\* differenceValue 0, totalValue is 0 and rebalanceNeeded is false.
C8_DegenerateAllocation ==
    (AllocComputed /\ ClaimTotalValue = Zero) =>
        /\ Len(allocation.items) = Len(groups)
        /\ \A i \in 1..Len(groups) :
               /\ allocation.items[i].groupId = groups[i].id
               /\ allocation.items[i].currentValue = Zero
               /\ allocation.items[i].currentPercent = Zero
               /\ allocation.items[i].difference = R(0 - groups[i].targetPercent)
               /\ allocation.items[i].differenceValue = Zero
        /\ allocation.totalValue = Zero
        /\ allocation.rebalanceNeeded = FALSE

C8_Witness ==
    /\ AllocComputed
    /\ ClaimTotalValue = Zero
    /\ \E h \in SeqToSet(holdings) : ClaimValueILS(h) # Zero
    /\ \E i \in 1..Len(groups) : groups[i].targetPercent > RebalanceThreshold

ClaimDeviation(g) ==
    RAbs(RSub(RMul(RDiv(ClaimGroupValue(g.id), ClaimTotalValue), R(100)),
              R(g.targetPercent)))

\* C9: with a non-zero total, rebalanceNeeded holds iff some group's
\* |currentPercent - targetPercent| is strictly greater than 5.
C9_RebalanceIffOverFive ==
    (AllocComputed /\ ClaimTotalValue # Zero) =>
        (allocation.rebalanceNeeded <=>
            \E i \in 1..Len(groups) : RLt(R(5), ClaimDeviation(groups[i])))

C9_Witness ==
    /\ AllocComputed
    /\ ClaimTotalValue # Zero
    /\ \E i \in 1..Len(groups) : ClaimDeviation(groups[i]) = R(5)
    /\ ~allocation.rebalanceNeeded

C9_WitnessNeeded ==
    /\ AllocComputed
    /\ ClaimTotalValue # Zero
    /\ allocation.rebalanceNeeded

-----------------------------------------------------------------------------
(* Claims about calculateConcentrationRisk *)

ConcentrationComputed == concentration # NotComputed

\* sum of the squares of the normalized market values of the first n holdings
RECURSIVE ClaimSumOfSquares(_)
ClaimSumOfSquares(n) ==
    IF n = 0 THEN Zero
    ELSE RAdd(ClaimSumOfSquares(n - 1),
              RMul(ClaimValueILS(holdings[n]), ClaimValueILS(holdings[n])))

RECURSIVE ClaimSumOfValues(_)
ClaimSumOfValues(n) ==
    IF n = 0 THEN Zero ELSE RAdd(ClaimSumOfValues(n - 1), ClaimValueILS(holdings[n]))

EqualPositiveValues ==
    /\ Len(holdings) >= 1
    /\ \A i \in 1..Len(holdings) :
           /\ RLt(Zero, ClaimValueILS(holdings[i]))
           /\ ClaimValueILS(holdings[i]) = ClaimValueILS(holdings[1])

\* C14: herfindahlIndex is the sum over the holdings of (marketValueILS /
\* totalValue * 100)^2, which is 10000 * (sum of squares) / totalValue^2; it is
\* 10000 for a single holding of positive value and 10000 / N for N holdings of
\* equal positive value.
C14_HerfindahlIndex ==
    ConcentrationComputed =>
        LET total == ClaimSumOfValues(Len(holdings))
            hhi == concentration.herfindahlIndex
        IN  /\ total # Zero =>
                   hhi = RDiv(RMul(R(10000), ClaimSumOfSquares(Len(holdings))),
                              RMul(total, total))
            /\ Len(holdings) = 1 /\ RLt(Zero, total) => hhi = R(10000)
            /\ EqualPositiveValues => hhi = Rat(10000, Len(holdings))

\* three holdings of equal positive value
C14_Witness ==
    /\ ConcentrationComputed
    /\ Len(holdings) = 3
    /\ EqualPositiveValues

C14_WitnessUnequal ==
    /\ ConcentrationComputed
    /\ Len(holdings) = 3
    /\ \E i, j \in 1..3 : RLt(Zero, ClaimValueILS(holdings[i]))
                           /\ RLt(ClaimValueILS(holdings[i]), ClaimValueILS(holdings[j]))
    /\ \E i \in 1..3 : holdings[i].currency = "USD"

-----------------------------------------------------------------------------
(* Claims about calculateTWR *)

TWRComputed == twr # NotComputed /\ twr # Null

Perms(n) == {p \in [1..n -> 1..n] : \A i, j \in 1..n : i # j => p[i] # p[j]}

\* the snapshots in ascending date order, equal dates in their given order
DateOrder(snaps) ==
    LET n == Len(snaps)
        p == CHOOSE q \in Perms(n) :
                 \A i \in 1..(n - 1) :
                     \/ snaps[q[i]].date < snaps[q[i + 1]].date
                     \/ /\ snaps[q[i]].date = snaps[q[i + 1]].date
                        /\ q[i] < q[i + 1]
    IN  [i \in 1..n |-> snaps[p[i]]]

IsDateSorted(snaps) ==
    \A i \in 1..(Len(snaps) - 1) : snaps[i].date <= snaps[i + 1].date

ClaimFactor(prev, curr) ==
    IF prev.valueBeforeFlow + prev.cashFlow <= 0
    THEN One
    ELSE Rat(curr.valueBeforeFlow, prev.valueBeforeFlow + prev.cashFlow)

RECURSIVE ClaimProduct(_, _)
ClaimProduct(s, n) ==
    IF n <= 1 THEN One
    ELSE RMul(ClaimProduct(s, n - 1), ClaimFactor(s[n - 1], s[n]))

ScenarioSnapshots(d) ==
    {[date |-> d, valueBeforeFlow |-> 1000, cashFlow |-> 0],
     [date |-> d + Day(365), valueBeforeFlow |-> 1100, cashFlow |-> 0]}

IsScenarioC1 ==
    /\ Len(snapshots) = 2
    /\ \E d \in SnapshotDates :
           {snapshots[1], snapshots[2]} = ScenarioSnapshots(d)

\* C1: totalReturn is (product over adjacent date-sorted pairs of
\* curr.valueBeforeFlow / (prev.valueBeforeFlow + prev.cashFlow), a pair with
\* start value <= 0 counting as factor 1) minus 1, times 100; the snapshots
\* (1000, 0) and (1100, 0) 365 days apart give totalReturn 10, periodDays 365.
C1_TWRChainsPeriodFactors ==
    TWRComputed =>
        /\ twr.totalReturn =
               RMul(RSub(ClaimProduct(DateOrder(snapshots), Len(snapshots)), One),
                    R(100))
        /\ IsScenarioC1 => twr.totalReturn = R(10) /\ twr.periodDays = R(365)

C1_Witness == TWRComputed /\ IsScenarioC1

C1_WitnessSkippedPeriod ==
    /\ TWRComputed
    /\ Len(snapshots) = 3
    /\ \E i \in 1..2 : StartValue(DateOrder(snapshots)[i]) <= 0
    /\ twr.totalReturn # Zero

TWRFactor(result) == RAdd(RDiv(result.totalReturn, R(100)), One)

\* C2: for a date-sorted series of n >= 3 snapshots and every internal index k,
\* the cumulative factor over the whole series is the product of the factors
\* over snapshots[0..k] and snapshots[k..n-1].
C2_TWRComposition ==
    (TWRComputed /\ Len(snapshots) >= 3 /\ IsDateSorted(snapshots)) =>
        \A k \in 2..(Len(snapshots) - 1) :
            TWRFactor(twr) =
                RMul(TWRFactor(calculateTWR(SubSeq(snapshots, 1, k))),
                     TWRFactor(calculateTWR(SubSeq(snapshots, k, Len(snapshots)))))

C2_Witness ==
    /\ TWRComputed
    /\ Len(snapshots) >= 3
    /\ IsDateSorted(snapshots)
    /\ TWRFactor(calculateTWR(SubSeq(snapshots, 1, 2))) \notin {Zero, One}
    /\ TWRFactor(calculateTWR(SubSeq(snapshots, 2, Len(snapshots)))) \notin {Zero, One}

\* C3: calculateTWR returns null for fewer than 2 snapshots and a result for
\* 2 or more.
C3_TWRNullIffFewerThanTwo ==
    twr # NotComputed => (twr = Null <=> Len(snapshots) < 2)

C3_Witness == twr = Null /\ Len(snapshots) = 1

C3_WitnessResult == TWRComputed /\ Len(snapshots) = 2

-----------------------------------------------------------------------------
(* Claims about calculateMaxDrawdown *)

RiskComputed == riskMetrics # NotComputed

\* the total values of the snapshots in date order
ClaimTotals ==
    LET s == DateOrder(snapshots)
    IN  [i \in 1..Len(s) |-> s[i].stocksValue + s[i].bondsValue + s[i].cashTotal]

RMaxOf(set) == CHOOSE x \in set : \A y \in set : RLe(y, x)

\* (v_i - v_j) / v_i over the positive v_i with i <= j
ClaimPairDrawdowns(v, j) ==
    {Rat(v[i] - v[j], v[i]) : i \in {k \in 1..j : v[k] > 0}}

ClaimPairDrawdownAt(v, j) == RMaxOf(ClaimPairDrawdowns(v, j) \cup {Zero})

\* (p_j - v_j) / p_j for the running peak p_j = max(v_1 .. v_j), where p_j > 0
ClaimPeakDrawdownAt(v, j) ==
    LET peak == CHOOSE x \in {v[i] : i \in 1..j} : \A i \in 1..j : v[i] <= x
    IN  IF peak > 0 THEN Rat(peak - v[j], peak) ELSE Zero

\* the result the claim describes, for the drawdowns d[1..n] of the snapshots:
\* 100 * the largest, with the date of the first snapshot that reaches it (no
\* date when there is no drawdown)
ClaimDrawdownResult(d) ==
    LET n == Len(d)
        largest == RMaxOf({d[j] : j \in 1..n} \cup {Zero})
        first == CHOOSE j \in 1..n :
                     d[j] = largest /\ \A k \in 1..(j - 1) : d[k] # largest
    IN  [maxDrawdown |-> RMul(largest, R(100)),
         maxDrawdownDate |->
             IF largest = Zero THEN Null
             ELSE [date |-> DateOrder(snapshots)[first].date]]

DrawdownResult ==
    [maxDrawdown |-> riskMetrics.maxDrawdown,
     maxDrawdownDate |-> riskMetrics.maxDrawdownDate]

\* C15 as stated: maxDrawdown is 100 * the maximum over i <= j of (v_i - v_j) /
\* v_i over the positive v_i, with the date of the snapshot that first reaches
\* it; fewer than 2 snapshots give 0 and null.
C15_MaxDrawdownOverPairs ==
    RiskComputed =>
        IF Len(snapshots) < 2
        THEN DrawdownResult = [maxDrawdown |-> Zero, maxDrawdownDate |-> Null]
        ELSE DrawdownResult =
                 ClaimDrawdownResult(
                     [j \in 1..Len(snapshots) |-> ClaimPairDrawdownAt(ClaimTotals, j)])

\* C15 amended: maxDrawdown is 100 * the maximum over j of (p_j - v_j) / p_j,
\* p_j the running peak max(v_1 .. v_j), over the j with p_j > 0, with the date
\* of the snapshot that first reaches it (null when it is 0); fewer than 2
\* snapshots give 0 and null.
C15_MaxDrawdownFromRunningPeak ==
    RiskComputed =>
        IF Len(snapshots) < 2
        THEN DrawdownResult = [maxDrawdown |-> Zero, maxDrawdownDate |-> Null]
        ELSE DrawdownResult =
                 ClaimDrawdownResult(
                     [j \in 1..Len(snapshots) |-> ClaimPeakDrawdownAt(ClaimTotals, j)])

\* snapshots entered out of date order whose largest drawdown is reached twice
C15_Witness ==
    /\ RiskComputed
    /\ Len(snapshots) = 3
    /\ ~IsDateSorted(snapshots)
    /\ RLt(Zero, riskMetrics.maxDrawdown)
    /\ ClaimPeakDrawdownAt(ClaimTotals, 2) = ClaimPeakDrawdownAt(ClaimTotals, 3)
    /\ riskMetrics.maxDrawdown = RMul(ClaimPeakDrawdownAt(ClaimTotals, 2), R(100))

\* a negative total after two different positive ones
C15_WitnessNegativeTotal ==
    /\ RiskComputed
    /\ Len(snapshots) = 3
    /\ ClaimTotals[1] > 0
    /\ ClaimTotals[2] > ClaimTotals[1]
    /\ ClaimTotals[3] < 0

C15_WitnessFewerThanTwo ==
    /\ RiskComputed
    /\ Len(snapshots) = 1
    /\ ClaimTotals[1] > 0

-----------------------------------------------------------------------------
(* Claims about the Sortino and Sharpe ratios *)

\* in SpecRisk the snapshots are stored in date order
ClaimStoredTotals ==
    [i \in 1..Len(snapshots) |->
        snapshots[i].stocksValue + snapshots[i].bondsValue + snapshots[i].cashTotal]

\* the pairs (i - 1, i) that give a period return: previous total > 0
ClaimPeriods == {i \in 2..Len(snapshots) : ClaimStoredTotals[i - 1] > 0}

ClaimReturn(i) ==
    Rat(ClaimStoredTotals[i] - ClaimStoredTotals[i - 1], ClaimStoredTotals[i - 1])

ClaimDownsidePeriods == {i \in ClaimPeriods : RLt(ClaimReturn(i), Zero)}

\* sum over the periods i <= n of a set of F(return), F the identity or the square
RECURSIVE ClaimSumReturns(_, _, _)
ClaimSumReturns(periods, n, squared) ==
    IF n < 2 THEN Zero
    ELSE RAdd(ClaimSumReturns(periods, n - 1, squared),
              IF n \in periods
              THEN (IF squared THEN RMul(ClaimReturn(n), ClaimReturn(n))
                    ELSE ClaimReturn(n))
              ELSE Zero)

ClaimMean ==
    RDiv(ClaimSumReturns(ClaimPeriods, Len(snapshots), FALSE),
         R(Cardinality(ClaimPeriods)))

\* (mean * 12 - riskFreeRate) / (deviation * sqrt(12)), as numerator and squared
\* denominator
ClaimRatio(deviationSquared) ==
    [numerator |-> RSub(RMul(ClaimMean, R(12)), Rat(4, 100)),
     denominatorSquared |-> RMul(deviationSquared, R(12))]

\* population deviation over the downside returns, squared (0 without any)
ClaimPopulationDownsideSquared ==
    IF ClaimDownsidePeriods = {} THEN Zero
    ELSE RDiv(ClaimSumReturns(ClaimDownsidePeriods, Len(snapshots), TRUE),
              R(Cardinality(ClaimDownsidePeriods)))

\* the same, taken as 0 when fewer than 2 returns are below the threshold
ClaimGuardedDownsideSquared ==
    IF Cardinality(ClaimDownsidePeriods) < 2 THEN Zero
    ELSE ClaimPopulationDownsideSquared

ClaimSortino(deviationSquared) ==
    IF Cardinality(ClaimPeriods) < 12 \/ deviationSquared = Zero
    THEN riskMetrics.sortinoRatio = Null
    ELSE riskMetrics.sortinoRatio = ClaimRatio(deviationSquared)

\* C16 as stated: the Sortino ratio is null exactly when there are fewer than 12
\* period returns or the population deviation over the returns below 0 is 0, and
\* otherwise (mean * 12 - riskFreeRate) / (downsideDeviation * sqrt(12)).
C16_SortinoPopulationDeviation ==
    RiskComputed => ClaimSortino(ClaimPopulationDownsideSquared)

\* C16 amended: as stated, with the downside deviation taken as 0 when fewer
\* than 2 returns are below 0.
C16_SortinoGuardedDeviation ==
    RiskComputed => ClaimSortino(ClaimGuardedDownsideSquared)

\* a year with two falling months and a Sortino ratio
C16_Witness ==
    /\ RiskComputed
    /\ Cardinality(ClaimPeriods) >= 12
    /\ Cardinality(ClaimDownsidePeriods) = 2
    /\ riskMetrics.sortinoRatio # Null

\* a year with one falling month
C16_WitnessOneDownside ==
    /\ RiskComputed
    /\ Cardinality(ClaimPeriods) >= 12
    /\ Cardinality(ClaimDownsidePeriods) = 1
    /\ riskMetrics.sortinoRatio = Null

\* sample variance of the period returns
ClaimSampleVariance ==
    LET n == Cardinality(ClaimPeriods)
        sum == ClaimSumReturns(ClaimPeriods, Len(snapshots), FALSE)
        squares == ClaimSumReturns(ClaimPeriods, Len(snapshots), TRUE)
    IN  \* (sum of squares - n * mean^2) / (n - 1)
        RDiv(RSub(squares, RDiv(RMul(sum, sum), R(n))), R(n - 1))

\* C17: the Sharpe ratio is null when there are fewer than 12 period returns
\* (pairs with a previous total <= 0 give none) or their sample standard
\* deviation is 0, and a number otherwise.
C17_SharpeNullCases ==
    RiskComputed =>
        (riskMetrics.sharpeRatio = Null
            <=> \/ Cardinality(ClaimPeriods) < 12
                \/ ClaimSampleVariance = Zero)

\* thirteen snapshots that give only eleven returns
C17_Witness ==
    /\ RiskComputed
    /\ Len(snapshots) = 13
    /\ Cardinality(ClaimPeriods) = 11
    /\ riskMetrics.sharpeRatio = Null

C17_WitnessNumber ==
    /\ RiskComputed
    /\ riskMetrics.sharpeRatio # Null
    /\ RLt(Zero, riskMetrics.sharpeRatio.denominatorSquared)

C17_WitnessNoDeviation ==
    /\ RiskComputed
    /\ Cardinality(ClaimPeriods) = 12
    /\ riskMetrics.sharpeRatio = Null

-----------------------------------------------------------------------------
(* Claims about the holdings and groups actions of the store *)

ClaimGroupIds(gs) == {gs[i].id : i \in 1..Len(gs)}

ClaimOtherGroups(gs, id) == SelectSeq(gs, LAMBDA g : g.id # id)

\* C18: a deleteGroup(id) step removes the group id from groups and leaves the
\* other groups as they were; every holding that referenced id has groupId
\* null and is otherwise as it was, every other holding is as it was, and no
\* holding has groupId = id afterwards.
C18_DeleteGroupFrame ==
    [][lastAction'.op = "deleteGroup" =>
          LET id == lastAction'.id
          IN  /\ id \notin ClaimGroupIds(groups')
              /\ groups' = ClaimOtherGroups(groups, id)
              /\ Len(holdings') = Len(holdings)
              /\ \A i \in 1..Len(holdings) :
                     /\ holdings'[i].groupId # id
                     /\ holdings[i].groupId = id =>
                            holdings'[i] = [holdings[i] EXCEPT !.groupId = NoGroup]
                     /\ holdings[i].groupId # id => holdings'[i] = holdings[i]]_vars

\* a group was deleted under a holding while another holding and another group stay
C18_Witness ==
    /\ lastAction.op = "deleteGroup"
    /\ lastAction.id \notin ClaimGroupIds(groups)
    /\ \E i, j \in 1..Len(holdings) :
           /\ holdings[i].groupId = NoGroup
           /\ holdings[j].groupId \in ClaimGroupIds(groups)

ClaimNetOfLog(transactions) ==
    LET RECURSIVE Net(_)
        Net(k) ==
            IF k = 0 THEN 0
            ELSE Net(k - 1)
                 + (IF transactions[k].type = "buy" THEN transactions[k].shares
                    ELSE IF transactions[k].type = "sell" THEN -transactions[k].shares
                    ELSE 0)
    IN  Net(Len(transactions))

\* C19: in every state reached through addHolding, updateHolding and
\* addTransaction, each holding's stored shares equals the sum of the shares of
\* its buy transactions minus the sum of the shares of its sell transactions.
C19_SharesEqualNetOfLog ==
    \A i \in 1..Len(holdings) :
        holdings[i].shares = ClaimNetOfLog(holdings[i].transactions)

ClaimIsPrefix(s, t) ==
    /\ Len(s) <= Len(t)
    /\ \A k \in 1..Len(s) : t[k] = s[k]

C20_WitnessUpdated ==
    /\ lastAction.op = "updateHolding"
    /\ Len(holdings) = 1
    /\ Len(holdings[1].transactions) >= 1

-----------------------------------------------------------------------------
(* Claims about the purity of the calculation functions *)

\* C21: a call of calculateTWR, calculateMaxDrawdown, calculateSharpeRatio,
\* calculateConcentrationRisk, calculateAllocation or calculateXIRR leaves the
\* snapshot, holding, group and cash-flow arrays passed in with the same
\* elements in the same order as before the call.
C21_InputsNotMutated ==
    [][/\ lastAction'.op \in {"calculateTWR", "calculateRiskMetrics"} =>
              snapshots' = snapshots
       /\ lastAction'.op \in {"calculateConcentrationRisk", "calculateAllocation"} =>
              /\ calculated'.holdings = HoldingsWithCalc(holdings, exchangeRates)
              /\ groups' = groups
              /\ holdings' = holdings
       /\ lastAction'.op = "calculateXIRR" =>
              xirr'.cashFlows = lastAction'.cashFlows]_vars

\* every function has returned over arrays that were not in sorted order
C21_Witness ==
    /\ twr \notin {NotComputed, Null}
    /\ riskMetrics # NotComputed
    /\ snapshots # SortByDate(snapshots)
    /\ concentration # NotComputed
    /\ allocation # NotComputed
    /\ calculated.holdings # SortByValueDesc(calculated.holdings)
    /\ xirr # NotComputed
    /\ xirr.pc = "done"
    /\ xirr.cashFlows # xirr.sorted

-----------------------------------------------------------------------------
(* Claims about the iteration of calculateXIRR *)

\* |x| < 1e-10, for the rationals of the model (denominators below 10^10)
ClaimBelowDerivativeBound(x) == IsFinite(x) /\ x.n = 0

\* |a - b| < 0.00001
ClaimRatesClose(a, b) ==
    /\ IsFinite(a) /\ IsFinite(b)
    /\ RLt(RSub(a, b), Rat(1, 100000))
    /\ RLt(RSub(b, a), Rat(1, 100000))

ClaimXirrStep ==
    LET n == Len(xirr.sorted)
        derivative == XnpvDerivative(xirr.sorted, n, xirr.rate)
        newRate == XSub(xirr.rate, XDiv(Xnpv(xirr.sorted, n, xirr.rate), derivative))
    IN  IF xirr.i >= MaxIterations
        THEN xirr'.pc = "done" /\ xirr'.result = Null
        ELSE IF ClaimBelowDerivativeBound(derivative)
        THEN xirr'.pc = "done" /\ xirr'.result = Null
        ELSE IF ClaimRatesClose(newRate, xirr.rate)
        THEN xirr'.pc = "done" /\ xirr'.result = [value |-> RMul(newRate, R(100))]
        ELSE xirr'.pc = "loop" /\ xirr'.i = xirr.i + 1 /\ xirr'.rate = newRate

ClaimXirrEntry ==
    IF Len(xirr'.cashFlows) < 2
    THEN xirr'.pc = "done" /\ xirr'.result = Null
    ELSE xirr'.pc = "loop" /\ xirr'.i = 0

\* C22: calculateXIRR makes at most 100 passes through its loop, and every
\* pass either returns or moves on to the next one: it returns null for fewer
\* than 2 cash flows, null at a pass whose derivative is below 1e-10 in
\* magnitude, null once 100 passes went by in which no two successive rates
\* came within 0.00001, and otherwise the converged rate times 100.
C22_XirrTerminates ==
    /\ [](XirrStarted => xirr.i <= MaxIterations)
    /\ [][IF XirrStarted THEN ClaimXirrStep ELSE ClaimXirrEntry]_vars

\* the loop ran all its passes and null was returned
C22_Witness ==
    /\ XirrStarted
    /\ xirr.pc = "done"
    /\ xirr.i = MaxIterations
    /\ xirr.result = Null

\* a rate was returned
C22_WitnessConverged ==
    /\ XirrStarted
    /\ xirr.pc = "done"
    /\ xirr.result # Null

\* null at a flat derivative
C22_WitnessFlatDerivative ==
    /\ XirrStarted
    /\ xirr.pc = "done"
    /\ Len(xirr.cashFlows) >= 2
    /\ xirr.i = 0
    /\ xirr.result = Null

-----------------------------------------------------------------------------
(* Claims about the items of calculateAllocation *)

ClaimGroupIdsOf(gs) == {gs[i].id : i \in 1..Len(gs)}

\* C23: when the total value is not 0, each group's item has currentValue =
\* the sum of marketValueILS over the holdings whose groupId is the group's id
\* (holdings with groupId null or with the id of no group count toward
\* totalValue only), currentPercent = currentValue / totalValue * 100,
\* difference = currentPercent - targetPercent and differenceValue =
\* currentValue - targetPercent / 100 * totalValue.
C23_AllocationItems ==
    (AllocComputed /\ ClaimTotalValue # Zero) =>
        /\ allocation.totalValue = ClaimTotalValue
        /\ Len(allocation.items) = Len(groups)
        /\ \A i \in 1..Len(groups) :
               LET item == allocation.items[i]
                   target == R(groups[i].targetPercent)
               IN  /\ item.currentValue = ClaimGroupValue(groups[i].id)
                   /\ item.currentPercent =
                          RMul(RDiv(item.currentValue, ClaimTotalValue), R(100))
                   /\ item.difference = RSub(item.currentPercent, target)
                   /\ item.differenceValue =
                          RSub(item.currentValue,
                               RMul(RDiv(target, R(100)), ClaimTotalValue))

\* a holding without a group next to a holding of a group
C23_Witness ==
    /\ AllocComputed
    /\ ClaimTotalValue # Zero
    /\ \E h \in SeqToSet(holdings) : h.groupId = NoGroup /\ ClaimValueILS(h) # Zero
    /\ \E i \in 1..Len(groups) :
           /\ allocation.items[i].currentValue # Zero
           /\ allocation.items[i].differenceValue # Zero

\* a holding whose groupId is the id of no group
C23_WitnessNoSuchGroup ==
    /\ AllocComputed
    /\ ClaimTotalValue # Zero
    /\ Len(groups) >= 1
    /\ \E h \in SeqToSet(holdings) :
           /\ h.groupId \notin ClaimGroupIdsOf(groups) \cup {NoGroup}
           /\ ClaimValueILS(h) # Zero

-----------------------------------------------------------------------------
(* Claims about isConcentrated *)

\* the largest market value among the first n holdings (n >= 1)
RECURSIVE ClaimLargestValue(_)
ClaimLargestValue(n) ==
    IF n = 1 THEN ClaimValueILS(holdings[1])
    ELSE RMax(ClaimLargestValue(n - 1), ClaimValueILS(holdings[n]))

ClaimTopPercent ==
    IF Len(holdings) = 0 \/ ClaimSumOfValues(Len(holdings)) = Zero THEN Zero
    ELSE RMul(RDiv(ClaimLargestValue(Len(holdings)), ClaimSumOfValues(Len(holdings))),
              R(100))

ClaimIndex ==
    IF ClaimSumOfValues(Len(holdings)) = Zero THEN Zero
    ELSE RDiv(RMul(R(10000), ClaimSumOfSquares(Len(holdings))),
              RMul(ClaimSumOfValues(Len(holdings)), ClaimSumOfValues(Len(holdings))))

\* C24: isConcentrated is (herfindahlIndex > 2500 or topHoldingPercent > 25);
\* when no holding has a negative market value it is true exactly when the
\* largest holding is above 25% of the total.
C24_ConcentratedByTopHolding ==
    ConcentrationComputed =>
        /\ concentration.isConcentrated <=>
               (RLt(R(2500), ClaimIndex) \/ RLt(R(25), ClaimTopPercent))
        /\ NoNegativeHolding =>
               (concentration.isConcentrated <=> RLt(R(25), ClaimTopPercent))

\* four holdings of a quarter each: neither threshold is passed
C24_Witness ==
    /\ ConcentrationComputed
    /\ NoNegativeHolding
    /\ Len(holdings) >= 4
    /\ ClaimTopPercent = R(25)
    /\ ClaimIndex = R(2500)
    /\ ~concentration.isConcentrated

\* the largest holding is above 25% while the index is below 2500
C24_WitnessTopOnly ==
    /\ ConcentrationComputed
    /\ NoNegativeHolding
    /\ RLt(R(25), ClaimTopPercent)
    /\ RLt(ClaimIndex, R(2500))
    /\ concentration.isConcentrated

-----------------------------------------------------------------------------
(* Claims about the order of the snapshots passed to calculateTWR *)

ClaimPermuted(snaps, p) == [i \in 1..Len(snaps) |-> snaps[p[i]]]

\* p leaves snapshots of the same date in their relative order
ClaimKeepsSameDateOrder(snaps, p) ==
    \A i, j \in 1..Len(snaps) :
        (i < j /\ snaps[p[i]].date = snaps[p[j]].date) => p[i] < p[j]

ClaimSameTWR(a, b) ==
    /\ a.totalReturn = b.totalReturn
    /\ a.annualizedReturn = b.annualizedReturn
    /\ a.periodDays = b.periodDays

\* C25 as stated: calculateTWR gives the same totalReturn, annualizedReturn and
\* periodDays for every permutation of the snapshot list, lists with several
\* snapshots of the same date included.
C25_TWROrderIndependent ==
    TWRComputed =>
        \A p \in Perms(Len(snapshots)) :
            ClaimSameTWR(calculateTWR(ClaimPermuted(snapshots, p)), twr)

\* C25 amended: the same for every permutation of the snapshot list that keeps
\* snapshots sharing a date in the same relative order.
C25_TWROrderIndependentUpToTies ==
    TWRComputed =>
        \A p \in Perms(Len(snapshots)) :
            ClaimKeepsSameDateOrder(snapshots, p) =>
                ClaimSameTWR(calculateTWR(ClaimPermuted(snapshots, p)), twr)

\* three snapshots out of date order, two of them of one date, with a return
C25_Witness ==
    /\ TWRComputed
    /\ Len(snapshots) = 3
    /\ ~IsDateSorted(snapshots)
    /\ \E i, j \in 1..3 : i # j /\ snapshots[i].date = snapshots[j].date
    /\ twr.totalReturn # Zero

-----------------------------------------------------------------------------
(* Claims about sales that exceed the eligible buys *)

\* the shares the matching loop took from the buys for this sale
ClaimSharesMatched(h, sale) ==
    sale.shares - FifoMatch(MatchableBuys(h.transactions, sale), sale).remainingShares

RECURSIVE ClaimWholeCost(_)
ClaimWholeCost(lots) ==
    IF lots = <<>> THEN 0
    ELSE Head(lots).shares * Head(lots).pricePerShare + ClaimWholeCost(Tail(lots))

\* C26: every sell dated in the selected year yields a sale event; the shares
\* matched exceed neither the sale's shares nor the shares of the buys dated on
\* or before the sale; when those buys hold fewer shares than the sale, the
\* cost basis is the cost of those buys alone (the unmatched shares add
\* nothing); with no such buy the cost basis and the holding period are 0 and
\* the event is short-term.
C26_InsufficientBuys ==
    TaxComputed =>
        \A x \in SalesInYear :
            LET lots == EligibleBuys(x.h, x.sale)
                sharesMatched == ClaimSharesMatched(x.h, x.sale)
            IN  /\ \E e \in EventsWithId(x.sale.id) : e.type = "sale"
                /\ sharesMatched <= x.sale.shares
                /\ sharesMatched <= SumShares(lots)
                /\ \A e \in EventsWithId(x.sale.id) :
                       /\ SumShares(lots) < x.sale.shares =>
                              /\ sharesMatched = SumShares(lots)
                              /\ e.costBasis = ClaimWholeCost(lots)
                       /\ lots = <<>> =>
                              /\ e.costBasis = 0
                              /\ e.holdingPeriodDays = 0
                              /\ e.isShortTerm

\* a sale of 15 shares against eligible buys of fewer shares, at a positive cost
C26_Witness ==
    /\ TaxComputed
    /\ \E x \in SalesInYear : \E e \in EventsWithId(x.sale.id) :
           /\ SumShares(EligibleBuys(x.h, x.sale)) < x.sale.shares
           /\ SumShares(EligibleBuys(x.h, x.sale)) > 0
           /\ e.costBasis > 0
           /\ e.gainLoss = e.proceeds - e.costBasis - x.sale.fees

\* a sale whose only buys are dated after it
C26_WitnessNoEligibleBuy ==
    /\ TaxComputed
    /\ \E x \in SalesInYear : \E e \in EventsWithId(x.sale.id) :
           /\ EligibleBuys(x.h, x.sale) = <<>>
           /\ OfType(x.h.transactions, "buy") # <<>>
           /\ e.gainLoss = e.proceeds - x.sale.fees

-----------------------------------------------------------------------------
(* The cash accounts of the store *)

MaxCashTransactions == 3

Currencies == {"ILS", "USD", "EUR"}

CashTransactionTypes == {"deposit", "withdrawal", "exchange", "dividend", "interest"}

\* the note and the related holding are display fields and are left out
CashTransactionInputs ==
    [type : CashTransactionTypes, date : {Day(1)}, amount : {R(100)}]

CashAmountInputs == {R(100)}

\* ExchangeModal getRate: 1, or a rate formed from exchangeRates (USD 3.75)
CashRateInputs == {One, Rat(15, 4)}

\* mutant: interest credited to the account
BalanceChangeCreditingInterest(transactionData) ==
    IF transactionData.type \in {"deposit", "dividend", "interest"}
    THEN transactionData.amount
    ELSE RSub(Zero, transactionData.amount)

BalanceChange(transactionData) ==
    IF transactionData.type = "deposit" \/ transactionData.type = "dividend"
    THEN transactionData.amount
    ELSE RSub(Zero, transactionData.amount)

\* { ...object, [key]: value }: a later key replaces an earlier equal one
WithKey(object, key, value) == [object EXCEPT ![key] = value]

CashTransactionCount ==
    Len(cashAccounts["ILS"].transactions) + Len(cashAccounts["USD"].transactions)
    + Len(cashAccounts["EUR"].transactions)

addCashTransaction(currency, transactionData) ==
    LET newTransaction ==
            [id |-> nextId, type |-> transactionData.type,
             date |-> transactionData.date, amount |-> transactionData.amount]
        account == cashAccounts[currency]
        balanceChange == BalanceChange(transactionData)
    IN  /\ cashAccounts' =
               WithKey(cashAccounts, currency,
                       [currency |-> account.currency,
                        balance |-> RAdd(account.balance, balanceChange),
                        transactions |-> Append(account.transactions, newTransaction)])
        /\ nextId' = nextId + 1

executeCurrencyExchange(from, to, amount, rate, date) ==
    LET toAmount == RMul(amount, rate)
        fromAccount ==
            [currency |-> cashAccounts[from].currency,
             balance |-> RSub(cashAccounts[from].balance, amount),
             transactions |->
                 Append(cashAccounts[from].transactions,
                        [id |-> nextId, type |-> "exchange", date |-> date,
                         amount |-> RSub(Zero, amount)])]
        toAccount ==
            [currency |-> cashAccounts[to].currency,
             balance |-> RAdd(cashAccounts[to].balance, toAmount),
             transactions |->
                 Append(cashAccounts[to].transactions,
                        [id |-> nextId + 1, type |-> "exchange", date |-> date,
                         amount |-> toAmount])]
    IN  /\ cashAccounts' = WithKey(WithKey(cashAccounts, from, fromAccount), to, toAccount)
        /\ nextId' = nextId + 2

CashAddTransaction ==
    /\ CashTransactionCount < MaxCashTransactions
    /\ \E currency \in Currencies, transactionData \in CashTransactionInputs :
           /\ addCashTransaction(currency, transactionData)
           /\ lastAction' = [op |-> "addCashTransaction", currency |-> currency,
                             transactionData |-> transactionData]
    /\ UNCHANGED <<holdings, groups, exchangeRates, selectedYear, taxableEvents,
                   calculated, allocation>>

CashExecuteCurrencyExchange ==
    /\ CashTransactionCount + 2 <= MaxCashTransactions
    /\ \E from \in Currencies, to \in Currencies,
          amount \in CashAmountInputs, rate \in CashRateInputs :
           /\ executeCurrencyExchange(from, to, amount, rate, Day(1))
           /\ lastAction' = [op |-> "executeCurrencyExchange", from |-> from,
                             to |-> to, amount |-> amount, rate |-> rate]
    /\ UNCHANGED <<holdings, groups, exchangeRates, selectedYear, taxableEvents,
                   calculated, allocation>>

InitCash == InitSnapshots /\ InitHoldings

NextCash ==
    \/ /\ CashAddTransaction
       /\ UNCHANGED <<varsTWR, bonds, bondsWithCalc, concentration, riskMetrics, xirr,
                      varsRefresh, varsPrice>>
    \/ /\ CashExecuteCurrencyExchange
       /\ UNCHANGED <<varsTWR, bonds, bondsWithCalc, concentration, riskMetrics, xirr,
                      varsRefresh, varsPrice>>

SpecCash == InitCash /\ [][NextCash]_vars

-----------------------------------------------------------------------------
(* Claims about the cash accounts *)

ClaimAppended(c) ==
    SubSeq(cashAccounts'[c].transactions,
           Len(cashAccounts[c].transactions) + 1, Len(cashAccounts'[c].transactions))

ClaimKeepsLog(c) ==
    /\ Len(cashAccounts'[c].transactions) >= Len(cashAccounts[c].transactions)
    /\ SubSeq(cashAccounts'[c].transactions, 1, Len(cashAccounts[c].transactions))
           = cashAccounts[c].transactions

ClaimAmounts(transactions) ==
    [i \in 1..Len(transactions) |->
        [type |-> transactions[i].type, amount |-> transactions[i].amount]]

ClaimExchange(from, to, amount, rate) ==
    LET debit == [type |-> "exchange", amount |-> RSub(Zero, amount)]
        credit == [type |-> "exchange", amount |-> RMul(amount, rate)]
    IN  /\ \A c \in Currencies : ClaimKeepsLog(c)
        /\ \A c \in Currencies \ {from, to} : cashAccounts'[c] = cashAccounts[c]
        /\ IF from # to
           THEN /\ cashAccounts'[from].balance = RSub(cashAccounts[from].balance, amount)
                /\ cashAccounts'[to].balance =
                       RAdd(cashAccounts[to].balance, RMul(amount, rate))
                /\ ClaimAmounts(ClaimAppended(from)) = <<debit>>
                /\ ClaimAmounts(ClaimAppended(to)) = <<credit>>
           ELSE /\ cashAccounts'[from].balance =
                       RAdd(RSub(cashAccounts[from].balance, amount), RMul(amount, rate))
                /\ ClaimAmounts(ClaimAppended(from)) = <<debit, credit>>

\* C27: executeCurrencyExchange(from, to, amount, rate), for every pair of
\* currencies including from = to, debits the from account by amount, credits
\* the to account by amount * rate, appends exactly two exchange transactions
\* (-amount on from, amount * rate on to) and leaves any third account as it was.
C27_ExchangeDebitsAndCredits ==
    [][lastAction'.op = "executeCurrencyExchange" =>
          ClaimExchange(lastAction'.from, lastAction'.to, lastAction'.amount,
                        lastAction'.rate)]_vars

\* C28: addCashTransaction(currency, tx) appends tx to that currency's list,
\* leaves the other accounts as they were, and adds tx.amount to the balance
\* for deposit and dividend and subtracts it for withdrawal, exchange and
\* interest, whatever the balance is.
C28_CashTransactionBalance ==
    [][lastAction'.op = "addCashTransaction" =>
          LET c == lastAction'.currency
              tx == lastAction'.transactionData
              appended == ClaimAppended(c)
          IN  /\ ClaimKeepsLog(c)
              /\ Len(appended) = 1
              /\ [type |-> appended[1].type, date |-> appended[1].date,
                  amount |-> appended[1].amount] = tx
              /\ \A o \in Currencies \ {c} : cashAccounts'[o] = cashAccounts[o]
              /\ tx.type \in {"deposit", "dividend"} =>
                     cashAccounts'[c].balance = RAdd(cashAccounts[c].balance, tx.amount)
              /\ tx.type \in {"withdrawal", "exchange", "interest"} =>
                     cashAccounts'[c].balance = RSub(cashAccounts[c].balance, tx.amount)]_vars

\* an interest transaction made on an account with transactions already
C28_Witness ==
    /\ lastAction.op = "addCashTransaction"
    /\ lastAction.transactionData.type = "interest"
    /\ Len(cashAccounts[lastAction.currency].transactions) >= 2
    /\ \E o \in Currencies \ {lastAction.currency} : cashAccounts[o].transactions # <<>>

\* a withdrawal from an account whose balance was not positive
C28_WitnessNegativeBalance ==
    /\ lastAction.op = "addCashTransaction"
    /\ lastAction.transactionData.type = "withdrawal"
    /\ cashAccounts[lastAction.currency].balance = R(-200)

-----------------------------------------------------------------------------
(* usePriceRefresh: refreshPrices calls overlapping each other and the store *)

MaxInvocations == 2
MaxRefreshHoldings == 2

RefreshHoldingInputs ==
    [shares : {10}, currentPrice : {100}, currency : {"USD"}, groupId : {"stocks-us"}]

\* what priceService.getPrices resolves with for one symbol
PriceResults == {[success |-> TRUE, data |-> [price |-> 150]], [success |-> FALSE]}

\* the holdings after updateHoldingPrice(id, price)
WithHoldingPrice(hs, id, price) ==
    [i \in 1..Len(hs) |->
        IF hs[i].id = id THEN [hs[i] EXCEPT !.currentPrice = price] ELSE hs[i]]

\* results.forEach over the holdings of the closure: each holding with a
\* successful result gets updateHoldingPrice(holding.id, result.data.price);
\* a holding stands for its symbol, every holding having a symbol of its own
RECURSIVE WithResults(_, _, _)
WithResults(hs, closure, results) ==
    IF closure = <<>> THEN hs
    ELSE LET holding == Head(closure)
             result == results[holding.id]
         IN  WithResults(IF result.success
                         THEN WithHoldingPrice(hs, holding.id, result.data.price)
                         ELSE hs,
                         Tail(closure), results)

deleteHolding(id) == holdings' = SelectSeq(holdings, LAMBDA h : h.id # id)

InFlight == {i \in 1..Len(invocations) : invocations[i].pc = "awaiting getPrices"}

\* refreshPrices up to its await: the flag is set and getPrices is called with
\* the symbols of the holdings the callback closed over
RefreshPricesCall ==
    /\ Len(invocations) < MaxInvocations
    /\ isRefreshing' = TRUE
    /\ invocations' = Append(invocations, [pc |-> "awaiting getPrices", holdings |-> holdings])
    /\ lastAction' = [op |-> "refreshPrices"]
    /\ UNCHANGED <<varsHoldings, lastRefresh>>

\* getPrices resolved: the prices are written, lastRefresh is set, and the
\* finally block clears the flag
RefreshPricesResolved ==
    /\ \E i \in InFlight :
           \E results \in [{h.id : h \in SeqToSet(invocations[i].holdings)} -> PriceResults] :
               /\ holdings' = WithResults(holdings, invocations[i].holdings, results)
               /\ invocations' = [invocations EXCEPT ![i].pc = "resolved"]
               /\ lastAction' = [op |-> "refreshPrices resolved", i |-> i]
    /\ lastRefresh' = [date |-> now]
    /\ isRefreshing' = FALSE
    /\ UNCHANGED <<groups, exchangeRates, nextId, selectedYear, taxableEvents,
                   calculated, allocation>>

\* getPrices rejected: only the finally block runs
RefreshPricesThrew ==
    /\ \E i \in InFlight :
           /\ invocations' = [invocations EXCEPT ![i].pc = "threw"]
           /\ lastAction' = [op |-> "refreshPrices threw", i |-> i]
    /\ isRefreshing' = FALSE
    /\ UNCHANGED <<varsHoldings, lastRefresh>>

RefreshAddHolding ==
    /\ Len(holdings) < MaxRefreshHoldings
    /\ nextId <= MaxRefreshHoldings
    /\ \E holdingData \in RefreshHoldingInputs : addHolding(holdingData)
    /\ lastAction' = [op |-> "addHolding"]
    /\ UNCHANGED <<groups, exchangeRates, selectedYear, taxableEvents, calculated,
                   allocation, varsRefresh>>

RefreshDeleteHolding ==
    /\ \E h \in SeqToSet(holdings) :
           /\ deleteHolding(h.id)
           /\ lastAction' = [op |-> "deleteHolding", id |-> h.id]
    /\ UNCHANGED <<groups, exchangeRates, nextId, selectedYear, taxableEvents,
                   calculated, allocation, varsRefresh>>

InitRefresh == InitSnapshots /\ InitHoldings

NextRefresh ==
    \/ /\ RefreshPricesCall
       /\ UNCHANGED <<varsTWR, bonds, bondsWithCalc, concentration, riskMetrics, xirr,
                      varsCash, varsPrice>>
    \/ /\ RefreshPricesResolved
       /\ UNCHANGED <<varsTWR, bonds, bondsWithCalc, concentration, riskMetrics, xirr,
                      varsCash, varsPrice>>
    \/ /\ RefreshPricesThrew
       /\ UNCHANGED <<varsTWR, bonds, bondsWithCalc, concentration, riskMetrics, xirr,
                      varsCash, varsPrice>>
    \/ /\ RefreshAddHolding
       /\ UNCHANGED <<varsTWR, bonds, bondsWithCalc, concentration, riskMetrics, xirr,
                      varsCash, varsPrice>>
    \/ /\ RefreshDeleteHolding
       /\ UNCHANGED <<varsTWR, bonds, bondsWithCalc, concentration, riskMetrics, xirr,
                      varsCash, varsPrice>>

SpecRefresh == InitRefresh /\ [][NextRefresh]_vars

-----------------------------------------------------------------------------
(* Claims about isRefreshing under overlapping refreshPrices calls *)

ClaimHoldingIds(hs) == {h.id : h \in SeqToSet(hs)}

ClaimFlagFollowsInFlight == isRefreshing <=> InFlight # {}

ClaimNotRecreated ==
    lastAction'.op \in {"refreshPrices resolved", "refreshPrices threw"} =>
        /\ Len(holdings') = Len(holdings)
        /\ ClaimHoldingIds(holdings') = ClaimHoldingIds(holdings)

\* C29: under every interleaving of refreshPrices calls, isRefreshing is true
\* whenever a call is still in flight and false once all calls have finished,
\* resolved or thrown, and the price update of a call never brings back a
\* holding deleted while the call was in flight.
C29_RefreshingWhileInFlight ==
    /\ []ClaimFlagFollowsInFlight
    /\ [][ClaimNotRecreated]_vars

-----------------------------------------------------------------------------
(* PriceService: getPrice calls overlapping each other, the cache, the clock *)

MaxCalls == 2
MaxClockAdvances == 2

\* cacheTimeout = 5 * 60 * 1000 milliseconds
CacheTimeout == 300000

\* providers = [taseProvider, yahooProvider]
Providers == <<"tase", "yahoo">>

\* symbols are strings, modelled as sequences of characters
Digits == {"0", "1", "2", "3", "4", "5", "6", "7", "8", "9"}

SymbolInputs == {<<"A">>, <<"7">>, <<"X", ".", "T", "A">>}

PriceInputs == {100}

\* the clock moves by just under the timeout or by the timeout
ClockSteps == {CacheTimeout - 1, CacheTimeout}

EndsWith(symbol, suffix) ==
    /\ Len(symbol) >= Len(suffix)
    /\ SubSeq(symbol, Len(symbol) - Len(suffix) + 1, Len(symbol)) = suffix

\* symbol.endsWith('.TA') || /^\d+$/.test(symbol)
isIsraeliSymbol(symbol) ==
    \/ EndsWith(symbol, <<".", "T", "A">>)
    \/ (symbol # <<>> /\ \A i \in 1..Len(symbol) : symbol[i] \in Digits)

Supports(provider, symbol) ==
    IF provider = "tase" THEN isIsraeliSymbol(symbol) ELSE TRUE

\* the for loop: the next provider after position k that supports the symbol,
\* 0 when the loop ends
NextProvider(symbol, k) ==
    LET later == {j \in (k + 1)..Len(Providers) : Supports(Providers[j], symbol)}
    IN  IF later = {} THEN 0 ELSE CHOOSE j \in later : \A other \in later : j <= other

\* what a provider's fetch resolves with: the quote it read, or the error it caught
FetchResults(provider, symbol) ==
    {[success |-> TRUE,
      data |-> [symbol |-> symbol, price |-> price, lastUpdate |-> now,
                source |-> provider]] : price \in PriceInputs}
    \cup {[success |-> FALSE, error |-> "provider error"]}

Succeeded(result) == result.success /\ "data" \in DOMAIN result

\* mutant: an entry exactly as old as the timeout still served
IsFreshInclusive(cached) == now - cached.timestamp <= CacheTimeout

IsFresh(cached) == now - cached.timestamp < CacheTimeout

CacheGet(symbol) == IF symbol \in DOMAIN cache THEN cache[symbol] ELSE Null

CacheSet(symbol, entry) ==
    [s \in DOMAIN cache \cup {symbol} |-> IF s = symbol THEN entry ELSE cache[s]]

CouldNotFetch == [success |-> FALSE, error |-> "Could not fetch price"]

Awaiting == {i \in 1..Len(calls) : calls[i].pc = "awaiting fetch"}

\* getPrice up to its first await or, on a fresh cache entry, to its return;
\* calledAt and cached record the clock and the entry the call saw
PriceGetPrice ==
    /\ Len(calls) < MaxCalls
    /\ \E symbol \in SymbolInputs :
           LET cached == CacheGet(symbol)
               hit == cached # Null /\ IsFresh(cached)
               first == NextProvider(symbol, 0)
               Call(pc, provider, result) ==
                   [symbol |-> symbol, calledAt |-> now, cached |-> cached,
                    fetched |-> <<>>, pc |-> pc, provider |-> provider,
                    result |-> result]
           IN  /\ calls' = Append(calls,
                      IF hit
                      THEN Call("returned", 0, [success |-> TRUE, data |-> cached.data])
                      ELSE IF first = 0
                      THEN Call("returned", 0, CouldNotFetch)
                      ELSE Call("awaiting fetch", first, Null))
               /\ lastAction' = [op |-> "getPrice", symbol |-> symbol]
    /\ UNCHANGED <<cache, now>>

\* the awaited fetch settles: a success is cached and returned, a failure
\* moves the loop to the next supporting provider or ends it
PriceFetchSettled ==
    /\ \E i \in Awaiting :
           LET call == calls[i]
               provider == Providers[call.provider]
           IN  \E result \in FetchResults(provider, call.symbol) :
                   LET fetched == Append(call.fetched,
                                         [provider |-> provider, result |-> result])
                       next == NextProvider(call.symbol, call.provider)
                   IN  /\ IF Succeeded(result)
                          THEN /\ cache' = CacheSet(call.symbol,
                                               [data |-> result.data, timestamp |-> now])
                               /\ calls' = [calls EXCEPT ![i] =
                                      [call EXCEPT !.pc = "returned", !.fetched = fetched,
                                                   !.result = result]]
                          ELSE /\ cache' = cache
                               /\ calls' = [calls EXCEPT ![i] =
                                      IF next = 0
                                      THEN [call EXCEPT !.pc = "returned",
                                                        !.fetched = fetched,
                                                        !.result = CouldNotFetch]
                                      ELSE [call EXCEPT !.provider = next,
                                                        !.fetched = fetched]]
                       /\ lastAction' = [op |-> "fetch settled", i |-> i]
    /\ UNCHANGED now

PriceClockAdvance ==
    /\ \E step \in ClockSteps :
           /\ now + step <= MaxClockAdvances * CacheTimeout
           /\ now' = now + step
    /\ lastAction' = [op |-> "clock"]
    /\ UNCHANGED <<cache, calls>>

InitPrice == InitSnapshots /\ InitHoldings

NextPrice ==
    \/ /\ PriceGetPrice
       /\ UNCHANGED <<varsTWR, varsHoldings, bonds, bondsWithCalc, concentration,
                      riskMetrics, xirr, varsCash, varsRefresh>>
    \/ /\ PriceFetchSettled
       /\ UNCHANGED <<varsTWR, varsHoldings, bonds, bondsWithCalc, concentration,
                      riskMetrics, xirr, varsCash, varsRefresh>>
    \/ /\ PriceClockAdvance
       /\ UNCHANGED <<varsTWR, varsHoldings, bonds, bondsWithCalc, concentration,
                      riskMetrics, xirr, varsCash, varsRefresh>>

SpecPrice == InitPrice /\ [][NextPrice]_vars

-----------------------------------------------------------------------------
(* Claims about the cache of PriceService *)

ClaimFiveMinutes == 5 * 60 * 1000

\* TASE first, then Yahoo, each only if it supports the symbol
ClaimSupporting(symbol) ==
    SelectSeq(<<"tase", "yahoo">>, LAMBDA provider : Supports(provider, symbol))

ClaimSawFreshEntry(call) ==
    call.cached # Null /\ call.calledAt - call.cached.timestamp < ClaimFiveMinutes

ClaimFetchedInOrder(call) ==
    LET supporting == ClaimSupporting(call.symbol)
        n == Len(call.fetched)
    IN  /\ n <= Len(supporting)
        /\ \A k \in 1..n : call.fetched[k].provider = supporting[k]
        /\ \A k \in 1..(n - 1) : ~call.fetched[k].result.success

ClaimGetPriceReturn(call) ==
    IF ClaimSawFreshEntry(call)
    THEN /\ call.pc = "returned"
         /\ call.fetched = <<>>
         /\ call.result = [success |-> TRUE, data |-> call.cached.data]
    ELSE /\ ClaimFetchedInOrder(call)
         /\ call.pc = "returned" =>
                LET n == Len(call.fetched)
                IN  IF call.result.success
                    THEN /\ n >= 1
                         /\ call.fetched[n].result.success
                         /\ call.result = call.fetched[n].result
                    ELSE /\ n = Len(ClaimSupporting(call.symbol))
                         /\ \A k \in 1..n : ~call.fetched[k].result.success

ClaimCachedFromSuccess ==
    \A symbol \in DOMAIN cache :
        \E i \in 1..Len(calls) : \E k \in 1..Len(calls[i].fetched) :
            /\ calls[i].symbol = symbol
            /\ calls[i].fetched[k].result.success
            /\ calls[i].fetched[k].result.data = cache[symbol].data

ClaimSuccessCached ==
    lastAction'.op = "fetch settled" =>
        LET call == calls'[lastAction'.i]
        IN  IF call.pc = "returned" /\ call.result.success
            THEN cache' = CacheSet(call.symbol,
                                   [data |-> call.result.data, timestamp |-> now])
            ELSE cache' = cache

\* C30: a cache entry exists only for a symbol some provider fetch returned
\* data for; a getPrice call made less than 5 minutes after the entry's
\* timestamp returns the entry's data and calls no provider; any other call
\* tries the supporting providers in the order TASE, Yahoo, caches and returns
\* the first success, and returns a failure only when all of them failed.
C30_PriceCache ==
    /\ [](ClaimCachedFromSuccess /\ \A i \in 1..Len(calls) : ClaimGetPriceReturn(calls[i]))
    /\ [][ClaimSuccessCached]_vars

\* a call answered from the cache next to the call that filled it
C30_Witness ==
    \E i, j \in 1..Len(calls) :
        /\ calls[i].pc = "returned" /\ calls[i].fetched # <<>> /\ calls[i].result.success
        /\ calls[j].pc = "returned" /\ calls[j].fetched = <<>>
        /\ calls[j].symbol = calls[i].symbol
        /\ calls[j].calledAt = calls[i].result.data.lastUpdate + ClaimFiveMinutes - 1
        /\ calls[j].result.data = calls[i].result.data

\* a call that found the entry exactly five minutes old and fetched again
C30_WitnessExpired ==
    \E j \in 1..Len(calls) :
        /\ calls[j].cached # Null
        /\ calls[j].calledAt - calls[j].cached.timestamp = ClaimFiveMinutes
        /\ calls[j].pc = "returned" /\ calls[j].fetched # <<>>
        /\ calls[j].result.success
        /\ cache[calls[j].symbol].timestamp = calls[j].calledAt

\* TASE failed and Yahoo answered
C30_WitnessFallback ==
    \E j \in 1..Len(calls) :
        /\ calls[j].pc = "returned" /\ calls[j].result.success
        /\ Len(calls[j].fetched) = 2
        /\ calls[j].fetched[1].provider = "tase"
        /\ calls[j].result.data.source = "yahoo"

\* every supporting provider failed and nothing was cached
C30_WitnessAllFailed ==
    \E j \in 1..Len(calls) :
        /\ calls[j].pc = "returned" /\ ~calls[j].result.success
        /\ Len(calls[j].fetched) = 2
        /\ calls[j].symbol \notin DOMAIN cache

====
